---------------------------- MODULE Spec2Model ----------------------------
(***************************************************************************)
(* duplicati-restore-rs: the block index (database.rs), the per-entry      *)
(* restore pipeline (restoring.rs) and the restore driver (main.rs).       *)
(*                                                                         *)
(* Bytes are naturals 0..255, byte strings are sequences of bytes, text is *)
(* a sequence of one-character strings.  A digest is a 32-byte sequence.   *)
(***************************************************************************)
EXTENDS Integers, Sequences, FiniteSets, TLC

\* database.rs hash_size(): the width of a raw digest inside a block-list payload.
HashSize == 32

\* Option<T>: None is the empty sequence, Some(v) the sequence of v alone.
None == << >>

Some(v) == << v >>

IsSome(o) == Len(o) = 1

Unwrap(o) == o[1]

Max(a, b) == IF a >= b THEN a ELSE b

Fill(len, v) == [k \in 1..len |-> v]

(***************************************************************************)
(* base64 (the `base64` crate): the two alphabets differ in the characters *)
(* of the sextets 62 and 63.                                               *)
(***************************************************************************)
AlphabetPrefix ==
    << "A","B","C","D","E","F","G","H","I","J","K","L","M","N","O","P",
       "Q","R","S","T","U","V","W","X","Y","Z","a","b","c","d","e","f",
       "g","h","i","j","k","l","m","n","o","p","q","r","s","t","u","v",
       "w","x","y","z","0","1","2","3","4","5","6","7","8","9" >>

STANDARD == AlphabetPrefix \o << "+", "/" >>

URL_SAFE == AlphabetPrefix \o << "-", "_" >>

RECURSIVE encode_config(_, _)
encode_config(b, al) ==
    IF Len(b) = 0 THEN << >>
    ELSE IF Len(b) = 1 THEN
        << al[(b[1] \div 4) + 1], al[((b[1] % 4) * 16) + 1], "=", "=" >>
    ELSE IF Len(b) = 2 THEN
        LET n == b[1] * 256 + b[2]
        IN  << al[(n \div 1024) + 1], al[((n \div 16) % 64) + 1],
               al[((n % 16) * 4) + 1], "=" >>
    ELSE
        LET n == b[1] * 65536 + b[2] * 256 + b[3]
        IN  << al[(n \div 262144) + 1], al[((n \div 4096) % 64) + 1],
               al[((n \div 64) % 64) + 1], al[(n % 64) + 1] >>
            \o encode_config(SubSeq(b, 4, Len(b)), al)

\* The sextet a character stands for in an alphabet, -1 when it has none.
Sextet(c, al) ==
    IF \E k \in 1..64 : al[k] = c THEN (CHOOSE k \in 1..64 : al[k] = c) - 1 ELSE -1

\* decode_config: [ok, bytes]; fails on a character outside the alphabet, on a
\* length that is no multiple of four, on misplaced padding and on non-zero
\* trailing bits.
RECURSIVE decode_config(_, _)
decode_config(s, al) ==
    IF Len(s) = 0 THEN [ok |-> TRUE, bytes |-> << >>]
    ELSE IF Len(s) < 4 THEN [ok |-> FALSE, bytes |-> << >>]
    ELSE
        LET s1 == Sextet(s[1], al)
            s2 == Sextet(s[2], al)
            s3 == Sextet(s[3], al)
            s4 == Sextet(s[4], al)
            bad == [ok |-> FALSE, bytes |-> << >>]
        IN  IF s1 < 0 \/ s2 < 0 THEN bad
            ELSE IF s[3] = "=" THEN
                IF Len(s) = 4 /\ s[4] = "=" /\ s2 % 16 = 0
                THEN [ok |-> TRUE, bytes |-> << s1 * 4 + (s2 \div 16) >>]
                ELSE bad
            ELSE IF s3 < 0 THEN bad
            ELSE IF s[4] = "=" THEN
                IF Len(s) = 4 /\ s3 % 4 = 0
                THEN [ok |-> TRUE,
                      bytes |-> << s1 * 4 + (s2 \div 16),
                                   (s2 % 16) * 16 + (s3 \div 4) >>]
                ELSE bad
            ELSE IF s4 < 0 THEN bad
            ELSE
                LET rest == decode_config(SubSeq(s, 5, Len(s)), al)
                IN  IF rest.ok
                    THEN [ok |-> TRUE,
                          bytes |-> << s1 * 4 + (s2 \div 16),
                                       (s2 % 16) * 16 + (s3 \div 4),
                                       (s3 % 4) * 64 + s4 >> \o rest.bytes]
                    ELSE bad

(***************************************************************************)
(* SHA-256 is modelled by a small order-sensitive streaming hash: an       *)
(* accumulator updated byte by byte and a finalisation to 32 bytes.        *)
(***************************************************************************)
Sha256New == 0

\* The effect of a byte string on the accumulator, acc |-> (a * acc + c) % 7 as
\* <<a, c>>, computed by halving so that long buffers need little recursion.
RECURSIVE Sha256Affine(_)
Sha256Affine(buf) ==
    IF Len(buf) = 0 THEN << 1, 0 >>
    ELSE IF Len(buf) = 1 THEN << 3, (buf[1] + 1) % 7 >>
    ELSE
        LET h == Len(buf) \div 2
            x == Sha256Affine(SubSeq(buf, 1, h))
            y == Sha256Affine(SubSeq(buf, h + 1, Len(buf)))
        IN  << (y[1] * x[1]) % 7, (y[1] * x[2] + y[2]) % 7 >>

Sha256Update(acc, buf) ==
    LET f == Sha256Affine(buf) IN (f[1] * acc + f[2]) % 7

Sha256Finalize(acc) == Fill(HashSize, acc * 42)

Sha256(bytes) == Sha256Finalize(Sha256Update(Sha256New, bytes))


(***************************************************************************)
(* Digests and block payloads of the bounded repositories.                 *)
(***************************************************************************)
\* The digest whose 32 bytes all equal the finalised accumulator value a.
Digest(a) == Sha256Finalize(a)

\* A faulty variant of from_bytes: bytes of any length are taken as a digest.
from_bytes_any(b) == Some(b)

\* BlockIdHash::from_bytes: a digest only from exactly 32 bytes.
from_bytes(b) == IF Len(b) # 32 THEN None ELSE Some(b)

\* slice::chunks(n): the number of chunks and the i-th chunk (from 0); the last
\* chunk may be shorter than n.
NumChunks(buf, n) == (Len(buf) + n - 1) \div n

Chunk(buf, n, i) == SubSeq(buf, n * i + 1, IF n * i + n <= Len(buf) THEN n * i + n ELSE Len(buf))

RECURSIVE Concat(_)
Concat(ss) == IF Len(ss) = 0 THEN << >> ELSE Head(ss) \o Concat(Tail(ss))

(***************************************************************************)
(* State.                                                                  *)
(***************************************************************************)
VARIABLES
    \* the backup directory and the command line (inputs, fixed during a run)
    archives,                   \* dblock path |-> sequence of [name, body]
    manifest_block_size,        \* Manifest.Blocksize
    file_entries,               \* the parsed snapshot: a sequence of FileEntry
    restore_path,               \* RestoreParams.restore_path, None when verifying
    replace_backslash_to_slash,
    hash_to_path,               \* CliArgs.hash_to_path
    zip_order,                  \* the iteration order of the registry's HashMap
    \* DB (HashToBlocks)
    hash2path,                  \* None, or Some(digest |-> BlockLocation)
    zip2ziparchive,             \* the registered archives (paths)
    \* the index build: one import_from_zip task per archive
    import_pc,                  \* "idle", "loop", "done" or "failed"
    import_index,               \* the next entry of the archive to index
    index_full,                 \* an import has failed (try_for_each is full)
    index_result,               \* of create_block_id_to_filenames
    \* one restore task per worker thread (RestoreContext, RestoreFileContext)
    pc,
    cur,                        \* index of the entry being restored, 0 when idle
    main_hash_index,
    block_index,
    hashes_buf,
    block_buffer,
    last_block_size,
    hasher,
    out_file,                   \* None, or Some(path of the open output file)
    \* the filesystem under the restore directory
    files,                      \* path |-> bytes
    dirs,                       \* the directories
    \* history
    fs_ops,                     \* every filesystem mutation performed
    trace,                      \* per entry: the fetch, write and hash steps taken
    fed,                        \* per entry: the content bytes fetched, in order
    result,                     \* per entry: "None", "Ok" or the error
    attempts,                   \* per entry: how often restore_entry was called
    \* parse_dlist_read
    dlist,                      \* the snapshot document: [malformed, objects]
    parse_pc,                   \* "idle", "called" or "returned"
    parse_result,               \* "None", "Ok" or the error
    \* strip_bom and strip_bom_from_bufread
    bom_input,                  \* the bytes of the slice, or of the reader's stream
    bom_slice,                  \* the slice strip_bom returned, when it was called
    bom_avail,                  \* the bytes fill_buf made available (-1 before the call)
    bom_consumed,               \* the bytes consumed from the reader (-1 before the call)
    \* restore_all, run and main
    run_pc,
    pass_iter,                  \* the entries the current pass has not handed out
    pass_full,                  \* the pass has seen an error (try_for_each is full)
    pass_err,
    restore_all_result,
    run_result,
    exit_status,
    fault                       \* the startup failure this run meets, if any

envVars == << archives, manifest_block_size, file_entries, restore_path,
              replace_backslash_to_slash, hash_to_path, zip_order, fault >>

dbVars == << hash2path, zip2ziparchive, import_pc, import_index, index_full, index_result >>

taskVars == << pc, cur, main_hash_index, block_index, hashes_buf, block_buffer,
               last_block_size, hasher, out_file >>

fsVars == << files, dirs >>

histVars == << fs_ops, trace, fed, result, attempts >>

runVars == << run_pc, pass_iter, pass_full, pass_err, restore_all_result, run_result,
              exit_status >>

bomVars == << bom_input, bom_slice, bom_avail, bom_consumed >>

parseVars == << dlist, parse_pc, parse_result, bomVars >>

vars == << envVars, dbVars, taskVars, fsVars, histVars, runVars, parseVars >>

\* --threads-rayon: the size of the worker pool.
NumWorkers == 2

Workers == 1..NumWorkers


(***************************************************************************)
(* database.rs: resolving a digest to an archive and reading the block.    *)
(***************************************************************************)
\* ZipArchive::contains_file_name
contains_file_name(zip, name) ==
    \E k \in 1..Len(archives[zip]) : archives[zip][k].name = name

\* ZipArchive::by_name: the body of the entry of that name.
by_name(zip, name) ==
    LET k == CHOOSE k \in 1..Len(archives[zip]) :
                 /\ archives[zip][k].name = name
                 /\ \A m \in 1..Len(archives[zip]) :
                        archives[zip][m].name = name => m <= k
    IN  archives[zip][k].body

\* HashToPath::get_zip_path_by_base64
get_zip_path_by_base64(h2p, block_id) ==
    LET key == decode_config(block_id, STANDARD)
    IN  IF ~key.ok THEN None
        ELSE IF key.bytes \in DOMAIN h2p THEN Some(h2p[key.bytes].zip_path)
        ELSE None

\* HashToBlocks::get_zip_archive
get_zip_archive(zip_filename) ==
    IF zip_filename \in zip2ziparchive THEN Some(zip_filename) ELSE None

\* The first registered archive, in the registry's iteration order, that
\* contains the name.
ProbeArchives(block_id) ==
    LET hits == { k \in 1..Len(zip_order) :
                    /\ zip_order[k] \in zip2ziparchive
                    /\ contains_file_name(zip_order[k], block_id) }
    IN  IF hits = {} THEN None
        ELSE Some(zip_order[CHOOSE k \in hits : \A m \in hits : k <= m])

\* HashToBlocks::get_zip_by_block_id
get_zip_by_block_id(block_id) ==
    IF IsSome(hash2path)
    THEN LET zname == get_zip_path_by_base64(Unwrap(hash2path), block_id)
         IN  IF IsSome(zname) THEN get_zip_archive(Unwrap(zname)) ELSE None
    ELSE ProbeArchives(block_id)

\* DB::get_content_block: [kind, body] with kind "some" (the block was read),
\* "none" (no archive found) or "err" (the archive found has no such entry).
get_content_block(block_id) ==
    LET name_reencoded == encode_config(block_id, URL_SAFE)
        ziparch == get_zip_by_block_id(name_reencoded)
    IN  IF IsSome(ziparch)
        THEN IF contains_file_name(Unwrap(ziparch), name_reencoded)
             THEN [kind |-> "some", body |-> by_name(Unwrap(ziparch), name_reencoded)]
             ELSE [kind |-> "err", body |-> << >>]
        ELSE [kind |-> "none", body |-> << >>]

\* DB::block_size
block_size == manifest_block_size

\* DB::offset_size: hashes-per-block * blocksize
offset_size ==
    LET hashes_per_block == manifest_block_size \div 32
    IN  hashes_per_block * manifest_block_size

\* DB::hash_size
hash_size == HashSize

(***************************************************************************)
(* restoring.rs: calculate_path.                                           *)
(***************************************************************************)
\* str::replacen(":\\", "\\", 1)
replacen_colon_backslash(s) ==
    LET hits == { k \in 1..(Len(s) - 1) : s[k] = ":" /\ s[k + 1] = "\\" }
    IN  IF hits = {} THEN s
        ELSE LET k == CHOOSE k \in hits : \A m \in hits : k <= m
             IN  SubSeq(s, 1, k - 1) \o SubSeq(s, k + 1, Len(s))

\* A faulty variant of replace_backslash: the backslashes are kept.
replace_backslash_kept(s) == s

\* str::replace('\\', "/")
replace_backslash(s) == [k \in 1..Len(s) |-> IF s[k] = "\\" THEN "/" ELSE s[k]]

\* Path::join: an absolute right-hand side replaces the left-hand side.
PathJoin(root, rel) ==
    IF Len(rel) > 0 /\ rel[1] = "/" THEN rel
    ELSE IF Len(root) > 0 /\ root[Len(root)] = "/" THEN root \o rel
    ELSE root \o << "/" >> \o rel

\* A faulty variant of calculate_path: without a restore path the entry path is used as is.
calculate_path_unrooted(entry) ==
    LET p1 == replacen_colon_backslash(entry.path)
        p2 == IF replace_backslash_to_slash THEN replace_backslash(p1) ELSE p1
    IN  Some([abs |-> IF IsSome(restore_path) THEN PathJoin(Unwrap(restore_path), p2) ELSE p2,
              rel |-> p2])

\* calculate_path: Some([abs, rel]), None when only verifying.
calculate_path(entry) ==
    IF IsSome(restore_path)
    THEN LET p1 == replacen_colon_backslash(entry.path)
             p2 == IF replace_backslash_to_slash THEN replace_backslash(p1) ELSE p1
         IN  Some([abs |-> PathJoin(Unwrap(restore_path), p2), rel |-> p2])
    ELSE None


(***************************************************************************)
(* restoring.rs: the restore of one entry, one action per block step.      *)
(***************************************************************************)
\* A step of the history of an entry.
Ev(ev, digest, j, i, found, len, offset) ==
    [ev |-> ev, digest |-> digest, j |-> j, i |-> i, found |-> found, len |-> len,
     offset |-> offset]

\* The file store with the bytes of one path replaced.
SetFile(f, p, c) == [q \in DOMAIN f \cup {p} |-> IF q = p THEN c ELSE f[q]]

\* seek(SeekFrom::Start(offset)) then write_all(buf): bytes between the old end
\* of the file and the offset read as zero.
WriteAt(content, offset, buf) ==
    [k \in 1..Max(Len(content), offset + Len(buf)) |->
        IF k > offset /\ k <= offset + Len(buf) THEN buf[k - offset]
        ELSE IF k <= Len(content) THEN content[k]
        ELSE 0]

\* update_hasher_maybe
update_hasher_maybe(h, buf) ==
    IF IsSome(h) THEN Some(Sha256Update(Unwrap(h), buf)) ELSE h

\* restore_file_singleblock, line 162: the Result of ok_or is bound to _len and
\* dropped, so an absent block raises nothing here.
singleblock_ok_or(block) == "Ok"

\* restore_file_multiblock_main, lines 295-301: ok_or_else(..)?
blocklist_ok_or_else(block) ==
    IF block.kind = "none" THEN "MissingBlocklist" ELSE "Ok"

\* A faulty variant of block_ok_or_else: the Result is dropped, as in the single-block path.
block_ok_or_else_dropped(block) == "Ok"

\* restore_file_multiblock_block, lines 233-239: ok_or_else(..)?
block_ok_or_else(block) ==
    IF block.kind = "none" THEN "MissingBlock" ELSE "Ok"

\* A faulty variant of check_strict_block: strict only when a file is written.
check_strict_block_writing(last, buf) ==
    [err  |-> IsSome(restore_path) /\ IsSome(last) /\ Unwrap(last) # block_size,
     last |-> Some(Len(buf))]

\* check_strict_block (strict_block_size is always true): the block seen before
\* this one in the same block-list block must have been full.
check_strict_block(last, buf) ==
    [err  |-> IsSome(last) /\ Unwrap(last) # block_size,
     last |-> Some(Len(buf))]

\* A faulty variant of block_offset: a block-list block is taken to cover one block.
block_offset_packed(mhi, bi) == mhi * block_size + bi * block_size

\* The offset a content block is written at.
block_offset(mhi, bi) ==
    LET blockhashoffset == mhi * offset_size
    IN  blockhashoffset + bi * block_size

\* check_file_hash
check_file_hash(entry, h) ==
    IF entry.size = 0 THEN "Ok"
    ELSE IF ~IsSome(h) THEN "Ok"
    ELSE IF entry.hash # Sha256Finalize(Unwrap(h)) THEN "HashMismatch"
    ELSE "Ok"

\* A faulty variant of Finish: the result is recorded and the task stays where it is.
FinishAndRetry(w, r) ==
    /\ result' = [result EXCEPT ![cur[w]] = r]
    /\ UNCHANGED pc

\* The task of worker w ends with result r.
Finish(w, r) ==
    /\ pc' = [pc EXCEPT ![w] = "done"]
    /\ result' = [result EXCEPT ![cur[w]] = r]

\* restore_entry: calculate_path and the dispatch on the entry type; for a File
\* the head of restore_file (hasher, File::create).  The directories above an
\* output path are taken to exist; create_dir_all fails on a path that is a
\* file and File::create on a path that is a directory.
RestoreEntry(w) ==
    /\ pc[w] = "restore_entry"
    /\ LET e == cur[w]
           entry == file_entries[e]
           paths == calculate_path(entry)
           abs == IF IsSome(paths) THEN Unwrap(paths).abs ELSE << >>
           isFile == entry.file_type = "File"
           mkdir == entry.file_type = "Folder" /\ IsSome(paths)
           mkdirFails == mkdir /\ abs \in DOMAIN files
           create == isFile /\ IsSome(paths)
           createFails == create /\ abs \in dirs
       IN  /\ attempts' = [attempts EXCEPT ![e] = @ + 1]
           /\ dirs' = IF mkdir /\ ~mkdirFails THEN dirs \cup {abs} ELSE dirs
           /\ files' = IF create /\ ~createFails THEN SetFile(files, abs, << >>) ELSE files
           /\ fs_ops' = fs_ops \cup
                  (IF mkdir /\ ~mkdirFails
                   THEN {[op |-> "create_dir_all", path |-> abs, entry |-> e]}
                   ELSE IF create /\ ~createFails
                   THEN {[op |-> "create", path |-> abs, entry |-> e]}
                   ELSE {})
           /\ trace' = IF create /\ ~createFails
                       THEN [trace EXCEPT ![e] = Append(@, Ev("create", << >>, -1, -1, 1, 0, 0))]
                       ELSE trace
           /\ hasher' = [hasher EXCEPT ![w] =
                  IF isFile /\ entry.size > 0 THEN Some(Sha256New) ELSE None]
           /\ out_file' = [out_file EXCEPT ![w] =
                  IF create /\ ~createFails THEN Some(abs) ELSE None]
           /\ main_hash_index' = [main_hash_index EXCEPT ![w] = 0]
           /\ IF mkdirFails \/ createFails THEN Finish(w, "Io")
              ELSE IF ~isFile THEN Finish(w, "Ok")
              ELSE /\ pc' = [pc EXCEPT ![w] =
                         IF entry.block_lists = << >> THEN "singleblock"
                         ELSE "multiblock_main"]
                   /\ UNCHANGED result
    /\ UNCHANGED << envVars, parseVars, dbVars, runVars, cur, block_index, hashes_buf,
                    block_buffer, last_block_size, fed >>

\* restore_file_singleblock
RestoreFileSingleblock(w) ==
    /\ pc[w] = "singleblock"
    /\ LET e == cur[w]
           entry == file_entries[e]
       IN  IF entry.size <= 0
           THEN /\ pc' = [pc EXCEPT ![w] = "check_file_hash"]
                /\ UNCHANGED << block_buffer, files, fs_ops, hasher, trace, fed, result >>
           ELSE LET block == get_content_block(entry.hash)
                    buf == block.body
                    len == singleblock_ok_or(block)
                    found == IF block.kind = "some" THEN 1 ELSE 0
                IN  /\ block_buffer' = [block_buffer EXCEPT ![w] = buf]
                    /\ IF block.kind = "err"
                       THEN /\ Finish(w, "BlockRead")
                            /\ trace' = [trace EXCEPT ![e] =
                                   Append(@, Ev("fetch", entry.hash, -1, -1, found, 0, 0))]
                            /\ UNCHANGED << files, fs_ops, hasher, fed >>
                       ELSE IF len # "Ok"
                       THEN /\ Finish(w, len)
                            /\ trace' = [trace EXCEPT ![e] =
                                   Append(@, Ev("fetch", entry.hash, -1, -1, found, 0, 0))]
                            /\ UNCHANGED << files, fs_ops, hasher, fed >>
                       ELSE /\ pc' = [pc EXCEPT ![w] = "check_file_hash"]
                            /\ files' = IF IsSome(out_file[w])
                                        THEN SetFile(files, Unwrap(out_file[w]),
                                                 WriteAt(files[Unwrap(out_file[w])], 0, buf))
                                        ELSE files
                            /\ fs_ops' = IF IsSome(out_file[w])
                                         THEN fs_ops \cup {[op |-> "write",
                                                  path |-> Unwrap(out_file[w]), entry |-> e]}
                                         ELSE fs_ops
                            /\ hasher' = [hasher EXCEPT ![w] = update_hasher_maybe(@, buf)]
                            /\ fed' = [fed EXCEPT ![e] = @ \o buf]
                            /\ trace' = [trace EXCEPT ![e] =
                                   @ \o << Ev("fetch", entry.hash, -1, -1, found, Len(buf), 0) >>
                                     \o (IF IsSome(out_file[w])
                                         THEN << Ev("write", entry.hash, -1, -1, 1, Len(buf), 0) >>
                                         ELSE << >>)
                                     \o (IF IsSome(hasher[w])
                                         THEN << Ev("hash", entry.hash, -1, -1, 1, Len(buf), 0) >>
                                         ELSE << >>)]
                            /\ UNCHANGED result
    /\ UNCHANGED << envVars, parseVars, dbVars, runVars, cur, main_hash_index, block_index,
                    hashes_buf, last_block_size, out_file, dirs, attempts >>

\* Where restore_file goes after the block-list block mhi has been worked off.
AfterBlocklist(entry, mhi) ==
    IF mhi + 1 < Len(entry.block_lists) THEN "multiblock_main" ELSE "check_file_hash"

\* restore_file_multiblock_main: fetch the block-list block of the loop's index.
RestoreFileMultiblockMain(w) ==
    /\ pc[w] = "multiblock_main"
    /\ LET e == cur[w]
           entry == file_entries[e]
           mhi == main_hash_index[w]
           block == get_content_block(entry.block_lists[mhi + 1])
           found == IF block.kind = "some" THEN 1 ELSE 0
           len == blocklist_ok_or_else(block)
       IN  /\ hashes_buf' = [hashes_buf EXCEPT ![w] = block.body]
           /\ trace' = [trace EXCEPT ![e] =
                  Append(@, Ev("fetch_list", entry.block_lists[mhi + 1], mhi, -1, found, Len(block.body), 0))]
           /\ IF block.kind = "err"
              THEN /\ Finish(w, "BlockRead")
                   /\ UNCHANGED << main_hash_index, block_index, last_block_size >>
              ELSE IF len # "Ok"
              THEN /\ Finish(w, len)
                   /\ UNCHANGED << main_hash_index, block_index, last_block_size >>
              ELSE /\ last_block_size' = [last_block_size EXCEPT ![w] = None]
                   /\ block_index' = [block_index EXCEPT ![w] = 0]
                   /\ IF NumChunks(block.body, hash_size) = 0
                      THEN /\ main_hash_index' = [main_hash_index EXCEPT ![w] = mhi + 1]
                           /\ pc' = [pc EXCEPT ![w] = AfterBlocklist(entry, mhi)]
                      ELSE /\ pc' = [pc EXCEPT ![w] = "multiblock_block"]
                           /\ UNCHANGED main_hash_index
                   /\ UNCHANGED result
    /\ UNCHANGED << envVars, parseVars, dbVars, runVars, fsVars, cur, block_buffer, hasher,
                    out_file, fs_ops, fed, attempts >>

\* restore_file_multiblock_block: one chunk of the block-list payload.
RestoreFileMultiblockBlock(w) ==
    /\ pc[w] = "multiblock_block"
    /\ LET e == cur[w]
           entry == file_entries[e]
           mhi == main_hash_index[w]
           bi == block_index[w]
           block_hash == from_bytes(Chunk(hashes_buf[w], hash_size, bi))
       IN  IF ~IsSome(block_hash)
           THEN /\ Finish(w, "BadHashLen")
                /\ UNCHANGED << main_hash_index, block_index, block_buffer,
                                last_block_size, hasher, files, fs_ops, trace, fed >>
           ELSE LET block == get_content_block(Unwrap(block_hash))
                    buf == block.body
                    found == IF block.kind = "some" THEN 1 ELSE 0
                    len == block_ok_or_else(block)
                    offset == block_offset(mhi, bi)
                    strict == check_strict_block(last_block_size[w], buf)
                IN  /\ block_buffer' = [block_buffer EXCEPT ![w] = buf]
                    /\ IF block.kind = "err" \/ len # "Ok"
                       THEN /\ Finish(w, IF block.kind = "err" THEN "BlockRead" ELSE len)
                            /\ trace' = [trace EXCEPT ![e] =
                                   Append(@, Ev("fetch", Unwrap(block_hash), mhi, bi, found, 0, 0))]
                            /\ UNCHANGED << main_hash_index, block_index, last_block_size,
                                            hasher, files, fs_ops, fed >>
                       ELSE /\ files' = IF IsSome(out_file[w])
                                        THEN SetFile(files, Unwrap(out_file[w]),
                                                 WriteAt(files[Unwrap(out_file[w])], offset, buf))
                                        ELSE files
                            /\ fs_ops' = IF IsSome(out_file[w])
                                         THEN fs_ops \cup {[op |-> "write",
                                                  path |-> Unwrap(out_file[w]), entry |-> e]}
                                         ELSE fs_ops
                            /\ hasher' = [hasher EXCEPT ![w] = update_hasher_maybe(@, buf)]
                            /\ fed' = [fed EXCEPT ![e] = @ \o buf]
                            /\ trace' = [trace EXCEPT ![e] =
                                   @ \o << Ev("fetch", Unwrap(block_hash), mhi, bi, found, Len(buf), 0) >>
                                     \o (IF IsSome(out_file[w])
                                         THEN << Ev("write", Unwrap(block_hash), mhi, bi, 1, Len(buf), offset) >>
                                         ELSE << >>)
                                     \o (IF IsSome(hasher[w])
                                         THEN << Ev("hash", Unwrap(block_hash), mhi, bi, 1, Len(buf), 0) >>
                                         ELSE << >>)]
                            /\ IF strict.err
                               THEN /\ Finish(w, "ShortBlock")
                                    /\ UNCHANGED << main_hash_index, block_index,
                                                    last_block_size >>
                               ELSE /\ last_block_size' =
                                           [last_block_size EXCEPT ![w] = strict.last]
                                    /\ IF bi + 1 < NumChunks(hashes_buf[w], hash_size)
                                       THEN /\ block_index' = [block_index EXCEPT ![w] = bi + 1]
                                            /\ UNCHANGED << main_hash_index, pc >>
                                       ELSE /\ main_hash_index' =
                                                   [main_hash_index EXCEPT ![w] = mhi + 1]
                                            /\ pc' = [pc EXCEPT ![w] = AfterBlocklist(entry, mhi)]
                                            /\ UNCHANGED block_index
                                    /\ UNCHANGED result
    /\ UNCHANGED << envVars, parseVars, dbVars, runVars, cur, hashes_buf, out_file, dirs, attempts >>

\* check_file_hash, and the return of restore_file and restore_entry.
CheckFileHash(w) ==
    /\ pc[w] = "check_file_hash"
    /\ LET e == cur[w]
           entry == file_entries[e]
       IN  /\ Finish(w, check_file_hash(entry, hasher[w]))
           /\ trace' = [trace EXCEPT ![e] = Append(@, Ev("check", << >>, -1, -1, 1, 0, 0))]
    /\ hasher' = [hasher EXCEPT ![w] = None]
    /\ UNCHANGED << envVars, parseVars, dbVars, runVars, fsVars, cur, main_hash_index, block_index,
                    hashes_buf, block_buffer, last_block_size, out_file, fs_ops, fed,
                    attempts >>

RestoreStep(w) ==
    \/ RestoreEntry(w)
    \/ RestoreFileSingleblock(w)
    \/ RestoreFileMultiblockMain(w)
    \/ RestoreFileMultiblockBlock(w)
    \/ CheckFileHash(w)


(***************************************************************************)
(* database.rs: import_from_zip, as far as the initial states need it (an  *)
(* index that was built before the restore starts).                        *)
(***************************************************************************)
\* A faulty variant of hash2path_insert: the location is not recorded.
hash2path_insert_dropped(h2p, key, loc) == h2p

\* A faulty variant of hash2path_insert: the location of the entry after is stored.
hash2path_insert_shifted(h2p, key, loc) ==
    [d \in DOMAIN h2p \cup {key} |->
        IF d = key THEN [loc EXCEPT !.file_index = @ + 1] ELSE h2p[d]]

\* HashMap::insert: a later insert of the same key replaces the earlier one.
hash2path_insert(h2p, key, loc) ==
    [d \in DOMAIN h2p \cup {key} |-> IF d = key THEN loc ELSE h2p[d]]

\* The loop of import_from_zip over the first n entries of one archive.
RECURSIVE ImportEntries(_, _, _)
ImportEntries(h2p, zip, n) ==
    IF n = 0 THEN h2p
    ELSE LET before == ImportEntries(h2p, zip, n - 1)
             hash == decode_config(archives[zip][n].name, URL_SAFE)
         IN  hash2path_insert(before, hash.bytes,
                 [zip_path |-> zip, file_index |-> n - 1])

(***************************************************************************)
(* The bounded inputs of the restore of one entry.                         *)
(***************************************************************************)
\* The number of digests a block-list payload of the model holds at most.
MaxChunks == 2

BlockSizes == {64}

Sizes(B) == {0, B}

RootDir == << "/", "r" >>

PathA == << "C", ":", "\\", "a" >>

\* Content-addressed names: the digest of the full block of fill byte v.
ContentName(B, v) == Sha256(Fill(B, v))

\* What the repository may hold under the name of the content block of fill v:
\* nothing, the block, or the block cut short by one byte.
ContentOptions(B, v) == {None, Some(Fill(B, v)), Some(Fill(B - 1, v))}

DigestSeqs(B, n) ==
    UNION { [1..k -> {ContentName(B, 1), ContentName(B, 2)}] : k \in 0..n }

\* What the repository may hold under the name of a block-list block: nothing,
\* up to n digests, or one digest followed by a partial chunk.
ListOptions(B, n) ==
    {None} \cup { Some(Concat(ds)) : ds \in DigestSeqs(B, n) }
           \cup { Some(ContentName(B, 1) \o << 9 >>) }

ListName(k) == Fill(HashSize, 200 + k)

HashChoices == { Digest(a) : a \in 0..6 }

FileEntry(path, hash, size, block_lists) ==
    [path |-> path, file_type |-> "File", hash |-> hash, size |-> size,
     block_lists |-> block_lists]

FolderEntry(path) ==
    [path |-> path, file_type |-> "Folder", hash |-> << >>, size |-> 0,
     block_lists |-> << >>]

SymLinkEntry(path) ==
    [path |-> path, file_type |-> "SymLink", hash |-> << >>, size |-> 0,
     block_lists |-> << >>]

\* One archive entry per block the repository holds, named by URL-safe base64.
ArchiveOf(blocks) ==
    LET present == SelectSeq(blocks, LAMBDA b : IsSome(b.body))
    IN  [k \in 1..Len(present) |->
            [name |-> encode_config(present[k].digest, URL_SAFE),
             body |-> Unwrap(present[k].body)]]

\* No byte-order mark is being stripped.
BomIdle ==
    /\ bom_input = << >>
    /\ bom_slice = << >>
    /\ bom_avail = -1
    /\ bom_consumed = -1

\* No snapshot document is being parsed.
ParseIdle ==
    /\ dlist = [malformed |-> FALSE, objects |-> << >>]
    /\ parse_pc = "idle"
    /\ parse_result = "None"
    /\ BomIdle

\* The task state before any entry is taken.
TaskInit ==
    /\ main_hash_index = [w \in Workers |-> 0]
    /\ block_index = [w \in Workers |-> 0]
    /\ hashes_buf = [w \in Workers |-> << >>]
    /\ block_buffer = [w \in Workers |-> << >>]
    /\ last_block_size = [w \in Workers |-> None]
    /\ hasher = [w \in Workers |-> None]
    /\ out_file = [w \in Workers |-> None]

HistInit ==
    /\ fs_ops = {}
    /\ trace = [e \in 1..Len(file_entries) |-> << >>]
    /\ fed = [e \in 1..Len(file_entries) |-> << >>]
    /\ result = [e \in 1..Len(file_entries) |-> "None"]
    /\ attempts = [e \in 1..Len(file_entries) |-> 0]

\* The registry and, in hash-to-path mode, the index of a finished index build.
DbReady(use_hash_to_path) ==
    /\ hash_to_path = use_hash_to_path
    /\ import_pc = [z \in DOMAIN archives |-> "done"]
    /\ import_index = [z \in DOMAIN archives |-> Len(archives[z])]
    /\ index_full = FALSE
    /\ index_result = "Ok"
    /\ zip2ziparchive = DOMAIN archives
    /\ zip_order \in { s \in [1..Cardinality(DOMAIN archives) -> DOMAIN archives] :
                         \A a \in DOMAIN archives : \E k \in DOMAIN s : s[k] = a }
    /\ hash2path = IF use_hash_to_path
                   THEN Some(ImportEntries(<< >>, "a.zip", Len(archives["a.zip"])))
                   ELSE None

\* The repository of one archive holding the given blocks, and its database.
Repository(blocks, use_hash_to_path) ==
    /\ archives = [z \in {"a.zip"} |-> ArchiveOf(blocks)]
    /\ DbReady(use_hash_to_path)

\* The snapshots of one entry and the repositories they are restored from: a
\* single-block file, a folder or a symlink, a file of one block-list block, a
\* file of two block-list blocks.
InitInputs ==
    \E c1 \in ContentOptions(manifest_block_size, 1),
       c2 \in ContentOptions(manifest_block_size, 2) :
       LET B == manifest_block_size
           C1 == ContentName(B, 1)
           C2 == ContentName(B, 2)
           content == << [digest |-> C1, body |-> c1], [digest |-> C2, body |-> c2] >>
       IN  \/ \E h \in {C1, C2}, sz \in Sizes(B), m \in BOOLEAN :
                 /\ Repository(content, m)
                 /\ file_entries = << FileEntry(PathA, h, sz, << >>) >>
           \/ /\ c1 = None /\ c2 = None
              /\ \E m \in BOOLEAN : Repository(content, m)
              /\ file_entries \in { << FolderEntry(PathA) >>, << SymLinkEntry(PathA) >> }
           \/ \E l1 \in ListOptions(B, MaxChunks), h \in HashChoices, sz \in Sizes(B),
                 m \in BOOLEAN :
                 /\ sz = 0 => h = Digest(0)
                 /\ Repository(<< [digest |-> ListName(1), body |-> l1] >> \o content, m)
                 /\ file_entries = << FileEntry(PathA, h, sz, << ListName(1) >>) >>
           \/ \E l1 \in ListOptions(B, MaxChunks), l2 \in ListOptions(B, 1),
                 h \in HashChoices, sz \in Sizes(B) :
                 /\ sz = 0 => h = Digest(0)
                 /\ l1 # None /\ l2 # Some(<< >>)
                 /\ Repository(<< [digest |-> ListName(1), body |-> l1],
                                  [digest |-> ListName(2), body |-> l2] >> \o content, FALSE)
                 /\ file_entries = << FileEntry(PathA, h, sz,
                                                << ListName(1), ListName(2) >>) >>

\* restore_entry called on one entry by worker 1, the index built.
Init ==
    /\ manifest_block_size \in BlockSizes
    /\ restore_path \in {None, Some(RootDir)}
    /\ replace_backslash_to_slash = TRUE
    /\ fault = "none"
    /\ InitInputs
    /\ pc = [w \in Workers |-> IF w = 1 THEN "restore_entry" ELSE "idle"]
    /\ cur = [w \in Workers |-> IF w = 1 THEN 1 ELSE 0]
    /\ TaskInit
    /\ HistInit
    /\ files = << >>
    /\ dirs = {RootDir}
    /\ run_pc = "restore_entry"
    /\ pass_iter = << >>
    /\ pass_full = FALSE
    /\ pass_err = "None"
    /\ restore_all_result = "None"
    /\ run_result = "None"
    /\ exit_status = -1
    /\ ParseIdle

Next == \E w \in Workers : RestoreStep(w)

Spec == Init /\ [][Next]_vars


(***************************************************************************)
(* sorting.rs: the order the entries are restored in.                      *)
(***************************************************************************)
\* The code point of a character of a path of the model.
Utf8(c) ==
    CASE c = "/" -> 47 [] c = ":" -> 58 [] c = "C" -> 67 [] c = "\\" -> 92
      [] c = "a" -> 97 [] c = "b" -> 98 [] c = "c" -> 99 [] c = "r" -> 114

\* Ordering::then_with, with Less = -1, Equal = 0, Greater = 1.
then_with(o, next) == IF o # 0 THEN o ELSE next

cmp_int(a, b) == IF a < b THEN -1 ELSE IF a > b THEN 1 ELSE 0

\* The lexicographic order of byte strings.
RECURSIVE cmp_bytes(_, _)
cmp_bytes(a, b) ==
    IF a = << >> /\ b = << >> THEN 0
    ELSE IF a = << >> THEN -1
    ELSE IF b = << >> THEN 1
    ELSE then_with(cmp_int(a[1], b[1]), cmp_bytes(Tail(a), Tail(b)))

cmp_str(a, b) ==
    cmp_bytes([k \in DOMAIN a |-> Utf8(a[k])], [k \in DOMAIN b |-> Utf8(b[k])])

\* The lexicographic order of sequences of BlockIdHash.
RECURSIVE cmp_block_lists(_, _)
cmp_block_lists(a, b) ==
    IF a = << >> /\ b = << >> THEN 0
    ELSE IF a = << >> THEN -1
    ELSE IF b = << >> THEN 1
    ELSE then_with(cmp_bytes(a[1], b[1]), cmp_block_lists(Tail(a), Tail(b)))

\* The derived order of FileType: the variant, then its fields.
FileTypeIndex(t) == CASE t = "File" -> 0 [] t = "Folder" -> 1 [] t = "SymLink" -> 2

cmp_file_type(a, b) ==
    then_with(cmp_int(FileTypeIndex(a.file_type), FileTypeIndex(b.file_type)),
        IF a.file_type = "File"
        THEN then_with(cmp_bytes(a.hash, b.hash), cmp_int(a.size, b.size))
        ELSE 0)

\* The derived order of FileEntry: path, file_type, block_lists.
cmp_file_entry(a, b) ==
    then_with(cmp_str(a.path, b.path),
        then_with(cmp_file_type(a, b), cmp_block_lists(a.block_lists, b.block_lists)))

\* The order of ZipLocation: the order of the archive paths.
cmp_zip_location(a, b) ==
    LET rank(z) == CASE z = "a.zip" -> 1 [] z = "b.zip" -> 2
    IN  cmp_int(rank(a), rank(b))

\* Ord for BlockLocation
cmp_block_location(a, b) ==
    then_with(cmp_zip_location(a.zip_path, b.zip_path), cmp_int(a.file_index, b.file_index))

\* A faulty variant of cmp_option_location: None is made the greatest value.
cmp_option_location_none_last(a, b) ==
    IF ~IsSome(a) /\ ~IsSome(b) THEN 0
    ELSE IF ~IsSome(a) THEN 1
    ELSE IF ~IsSome(b) THEN -1
    ELSE cmp_block_location(Unwrap(a), Unwrap(b))

\* Ord for Option<BlockLocation>: None is less than Some.
cmp_option_location(a, b) ==
    IF ~IsSome(a) /\ ~IsSome(b) THEN 0
    ELSE IF ~IsSome(a) THEN -1
    ELSE IF ~IsSome(b) THEN 1
    ELSE cmp_block_location(Unwrap(a), Unwrap(b))

\* HashToBlocks::get_location_by_base64 on the base64 text of the digest.
get_block_id_location(h2p, block_id) ==
    IF IsSome(h2p)
    THEN LET key == decode_config(encode_config(block_id, STANDARD), STANDARD)
         IN  IF key.ok /\ key.bytes \in DOMAIN Unwrap(h2p)
             THEN Some(Unwrap(h2p)[key.bytes])
             ELSE None
    ELSE None

get_first_bytes_location(entry, h2p) ==
    IF entry.file_type = "File"
    THEN IF entry.block_lists = << >>
         THEN get_block_id_location(h2p, entry.hash)
         ELSE get_block_id_location(h2p, entry.block_lists[1])
    ELSE None

\* A faulty variant of compare_fileentry: the location is left out of the order.
compare_fileentry_by_entry(a, b, h2p) == cmp_file_entry(a, b)

compare_fileentry(a, b, h2p) ==
    then_with(cmp_option_location(get_first_bytes_location(a, h2p),
                                  get_first_bytes_location(b, h2p)),
              cmp_file_entry(a, b))

\* slice::sort_by (a stable sort) with compare_fileentry.
RECURSIVE sort_files_sequentially(_, _)
sort_files_sequentially(entries, h2p) ==
    IF Len(entries) <= 1 THEN entries
    ELSE LET n == Len(entries)
             x == entries[n]
             front == sort_files_sequentially(SubSeq(entries, 1, n - 1), h2p)
             k == Cardinality({ m \in 1..(n - 1) : compare_fileentry(front[m], x, h2p) <= 0 })
         IN  SubSeq(front, 1, k) \o << x >> \o SubSeq(front, k + 1, n - 1)


(***************************************************************************)
(* main.rs: main, run and restore_all with the worker pool.                *)
(***************************************************************************)
\* The indexes of the entries of the given type, in snapshot order.
RECURSIVE FilterIndexes(_, _, _)
FilterIndexes(entries, type, n) ==
    IF n = 0 THEN << >>
    ELSE FilterIndexes(entries, type, n - 1) \o
             (IF entries[n].file_type = type THEN << n >> ELSE << >>)

\* DB::create_block_id_to_filenames: every archive imported, in the given order.
RECURSIVE ImportAll(_, _, _)
ImportAll(h2p, order, n) ==
    IF n = 0 THEN h2p
    ELSE ImportEntries(ImportAll(h2p, order, n - 1), order[n], Len(archives[order[n]]))

\* run returns Err(err) with the ? operator.
RunFail(err) ==
    /\ run_result' = err
    /\ run_pc' = "run_done"

\* run, lines 135-144: CliArgs::parse and the restore directory.
ParseArgs ==
    /\ run_pc = "args"
    /\ IF fault = "no_restore_dir" THEN RunFail("NoRestoreDir")
       ELSE run_pc' = "find_dlist" /\ UNCHANGED run_result
    /\ UNCHANGED << envVars, parseVars, dbVars, taskVars, fsVars, histVars, pass_iter, pass_full,
                    pass_err, restore_all_result, exit_status >>

\* run, lines 152-163: the newest list archive.
FindNewestDlist ==
    /\ run_pc = "find_dlist"
    /\ IF fault = "no_dlist" THEN RunFail("NoDlist")
       ELSE run_pc' = "read_manifest" /\ UNCHANGED run_result
    /\ UNCHANGED << envVars, parseVars, dbVars, taskVars, fsVars, histVars, pass_iter, pass_full,
                    pass_err, restore_all_result, exit_status >>

\* run, line 170: read_manifest(newest_dlist)?
ReadManifest ==
    /\ run_pc = "read_manifest"
    /\ IF fault = "bad_manifest" THEN RunFail("BadManifest")
       ELSE run_pc' = "parse_dlist" /\ UNCHANGED run_result
    /\ UNCHANGED << envVars, parseVars, dbVars, taskVars, fsVars, histVars, pass_iter, pass_full,
                    pass_err, restore_all_result, exit_status >>

\* run, line 193: parse_dlist_file(newest_dlist)?
ParseDlist ==
    /\ run_pc = "parse_dlist"
    /\ IF fault = "bad_snapshot" THEN RunFail("BadSnapshot")
       ELSE run_pc' = "db_join" /\ UNCHANGED run_result
    /\ UNCHANGED << envVars, parseVars, dbVars, taskVars, fsVars, histVars, pass_iter, pass_full,
                    pass_err, restore_all_result, exit_status >>

\* run, lines 175-190: the index thread, spawned before the snapshot is parsed
\* (DB::new, then create_block_id_to_filenames); it runs beside the parse.
IndexThread ==
    /\ run_pc \in {"parse_dlist", "db_join"}
    /\ index_result = "None"
    /\ IF fault = "archive_open"
       THEN /\ index_result' = "ArchiveOpen"
            /\ UNCHANGED << hash2path, zip2ziparchive, import_pc, import_index, index_full >>
       ELSE /\ zip2ziparchive' = DOMAIN archives
            /\ import_pc' = [z \in DOMAIN archives |-> "done"]
            /\ import_index' = [z \in DOMAIN archives |-> Len(archives[z])]
            /\ index_result' = "Ok"
            /\ UNCHANGED index_full
            /\ hash2path' = IF hash_to_path
                            THEN Some(ImportAll(<< >>, zip_order, Len(zip_order)))
                            ELSE None
    /\ UNCHANGED << envVars, parseVars, taskVars, fsVars, histVars, runVars >>

\* A faulty variant of db_joined: the join does not wait for the index thread.
db_joined_early == TRUE

\* JoinHandle::join returns when the index thread has returned.
db_joined == index_result # "None"

\* run, line 222: db_join.join().unwrap()?
DbJoin ==
    /\ run_pc = "db_join"
    /\ db_joined
    /\ IF index_result \notin {"None", "Ok"}
       THEN RunFail(index_result)
       ELSE run_pc' = "sort" /\ UNCHANGED run_result
    /\ UNCHANGED << envVars, parseVars, dbVars, taskVars, fsVars, histVars, pass_iter,
                    pass_full, pass_err, restore_all_result, exit_status >>

\* run, lines 224-228: sort_files_sequentially
SortFileEntries ==
    /\ run_pc = "sort"
    /\ file_entries' = sort_files_sequentially(file_entries, hash2path)
    /\ run_pc' = "restore_all"
    /\ UNCHANGED << parseVars,
                    archives, manifest_block_size, restore_path, replace_backslash_to_slash,
                    hash_to_path, zip_order, fault, dbVars, taskVars, fsVars, histVars,
                    pass_iter, pass_full, pass_err, restore_all_result, run_result,
                    exit_status >>

\* restore_all, lines 260-263: the folder pass starts.
RestoreAllFolders ==
    /\ run_pc = "restore_all"
    /\ pass_iter' = FilterIndexes(file_entries, "Folder", Len(file_entries))
    /\ pass_full' = FALSE
    /\ pass_err' = "None"
    /\ run_pc' = "folder_pass"
    /\ pc' = [w \in Workers |-> "check_full"]
    /\ UNCHANGED << envVars, parseVars, dbVars, fsVars, histVars, cur, main_hash_index,
                    block_index, hashes_buf, block_buffer, last_block_size, hasher,
                    out_file, restore_all_result, run_result, exit_status >>

\* A faulty variant of full_seen: the flag is never seen.
full_ignored(full) == FALSE

\* Folder::full of try_for_each: the shared flag as the worker reads it.
full_seen(full) == full

\* par_bridge: before it goes to the shared iterator, at the start of the pass
\* and after each entry, a worker looks at the flag of the pass; it leaves the
\* pass when the flag is set.
WorkerCheckFull(w) ==
    /\ run_pc \in {"folder_pass", "file_pass"}
    /\ pc[w] = "check_full"
    /\ pc' = [pc EXCEPT ![w] = IF full_seen(pass_full) THEN "idle" ELSE "ready"]
    /\ UNCHANGED << envVars, parseVars, dbVars, fsVars, histVars, runVars, cur,
                    main_hash_index, block_index, hashes_buf, block_buffer,
                    last_block_size, hasher, out_file >>

\* par_bridge: a worker that found the flag clear locks the shared iterator
\* and takes the next entry, or leaves the pass when there is none; the flag
\* is not looked at again in between.
WorkerTake(w) ==
    /\ run_pc \in {"folder_pass", "file_pass"}
    /\ pc[w] = "ready"
    /\ IF pass_iter = << >>
       THEN /\ pc' = [pc EXCEPT ![w] = "idle"]
            /\ UNCHANGED << cur, pass_iter >>
       ELSE /\ cur' = [cur EXCEPT ![w] = Head(pass_iter)]
            /\ pass_iter' = Tail(pass_iter)
            /\ pc' = [pc EXCEPT ![w] = "restore_entry"]
    /\ UNCHANGED << envVars, parseVars, dbVars, fsVars, histVars, main_hash_index, block_index,
                    hashes_buf, block_buffer, last_block_size, hasher, out_file, run_pc,
                    pass_full, pass_err, restore_all_result, run_result, exit_status >>

\* A faulty variant of try_reduce: the error of an entry is dropped.
try_reduce_swallowed(acc, r, keep) == acc

\* try_for_each_with: the results of the closures are combined; with more than
\* one error, which one is returned depends on the scheduling.
try_reduce(acc, r, keep) ==
    IF r = "Ok" THEN acc
    ELSE IF acc = "None" THEN r
    ELSE IF keep THEN acc ELSE r

\* The closure of try_for_each_with returns on worker w.
WorkerFinish(w) ==
    /\ pc[w] = "done"
    /\ run_pc \in {"folder_pass", "file_pass"}
    /\ \E keep \in BOOLEAN :
          pass_err' = try_reduce(pass_err, result[cur[w]], keep)
    /\ pass_full' = (pass_full \/ result[cur[w]] # "Ok")
    /\ pc' = [pc EXCEPT ![w] = "check_full"]
    /\ cur' = [cur EXCEPT ![w] = 0]
    /\ UNCHANGED << envVars, parseVars, dbVars, fsVars, histVars, main_hash_index, block_index,
                    hashes_buf, block_buffer, last_block_size, hasher, out_file, run_pc,
                    pass_iter, restore_all_result, run_result, exit_status >>

\* A faulty variant of pass_joined: the pass returns without waiting for its workers.
pass_joined_early == TRUE

\* try_for_each_with returns when every worker has returned.
pass_joined == \A w \in Workers : pc[w] = "idle"

\* restore_all, lines 264-284: the folder pass returns; ? on its result, then
\* the file pass starts.
FolderPassJoin ==
    /\ run_pc = "folder_pass"
    /\ pass_joined
    /\ pass_iter = << >> \/ pass_full
    /\ IF pass_err # "None"
       THEN /\ restore_all_result' = pass_err
            /\ RunFail(pass_err)
            /\ UNCHANGED << pass_iter, pass_full, pass_err, pc >>
       ELSE /\ pass_iter' = FilterIndexes(file_entries, "File", Len(file_entries))
            /\ pass_full' = FALSE
            /\ run_pc' = "file_pass"
            /\ pc' = [w \in Workers |-> "check_full"]
            /\ UNCHANGED << pass_err, restore_all_result, run_result >>
    /\ UNCHANGED << envVars, parseVars, dbVars, fsVars, histVars, cur, main_hash_index,
                    block_index, hashes_buf, block_buffer, last_block_size, hasher,
                    out_file, exit_status >>

\* restore_all, lines 285-300, and run, lines 236-238: the file pass returns,
\* restore_all returns its result and run returns it.
FilePassJoin ==
    /\ run_pc = "file_pass"
    /\ pass_joined
    /\ pass_iter = << >> \/ pass_full
    /\ restore_all_result' = (IF pass_err # "None" THEN pass_err ELSE "Ok")
    /\ RunFail(IF pass_err # "None" THEN pass_err ELSE "Ok")
    /\ UNCHANGED << envVars, parseVars, dbVars, taskVars, fsVars, histVars, pass_iter, pass_full,
                    pass_err, exit_status >>

\* main: both arms of the match on the result of run print and fall off the
\* end of main, so the process exits with status 0.
MainExit ==
    /\ run_pc = "run_done"
    /\ exit_status' = 0
    /\ run_pc' = "exited"
    /\ UNCHANGED << envVars, parseVars, dbVars, taskVars, fsVars, histVars, pass_iter, pass_full,
                    pass_err, restore_all_result, run_result >>

PathB == << "C", ":", "\\", "b" >>

PathC == << "C", ":", "\\", "c" >>

\* A path that calculate_path maps to the output path of PathA.
PathANoColon == << "C", "\\", "a" >>

\* A file that is in the restore directory before the run.
PreExisting == [p \in {<< "/", "r", "/", "C", "/", "b" >>} |-> << 7 >>]

\* The snapshots of the runs: folders, single-block and multi-block files and
\* a symlink, in snapshot order.
Snapshots ==
    LET B == manifest_block_size
        C1 == ContentName(B, 1)
        C2 == ContentName(B, 2)
    IN  { << FileEntry(PathC, C2, B, << >>), FolderEntry(PathA),
             FileEntry(PathB, C2, B, << ListName(1) >>) >>,
          << FolderEntry(PathB), FileEntry(PathA, C2, B, << >>), FolderEntry(PathA) >>,
          << SymLinkEntry(PathA), FileEntry(PathC, C1, B, << >>),
             FileEntry(PathB, C2, B, << >>) >>,
          << FolderEntry(PathB), FolderEntry(PathA), FileEntry(PathC, C2, B, << >>) >>,
          << FileEntry(PathA, C2, B, << >>), FileEntry(PathANoColon, C1, B, << >>) >> }

Faults == {"none", "no_restore_dir", "no_dlist", "bad_manifest", "bad_snapshot",
           "archive_open"}

\* main is entered: nothing is parsed, indexed or restored yet.
InitDriver ==
    /\ manifest_block_size \in BlockSizes
    /\ restore_path \in {None, Some(RootDir)}
    /\ replace_backslash_to_slash = TRUE
    /\ hash_to_path \in BOOLEAN
    /\ fault \in Faults
    /\ \E c2 \in {None, Some(Fill(manifest_block_size, 2))} :
          LET B == manifest_block_size
          IN  archives = [z \in {"a.zip"} |-> ArchiveOf(<<
                  [digest |-> ListName(1), body |-> Some(ContentName(B, 2))],
                  [digest |-> ContentName(B, 1), body |-> Some(Fill(B, 1))],
                  [digest |-> ContentName(B, 2), body |-> c2] >>)]
    /\ file_entries \in Snapshots
    /\ zip_order = << "a.zip" >>
    /\ hash2path = None
    /\ zip2ziparchive = {}
    /\ import_pc = [z \in DOMAIN archives |-> "idle"]
    /\ import_index = [z \in DOMAIN archives |-> 0]
    /\ index_full = FALSE
    /\ index_result = "None"
    /\ pc = [w \in Workers |-> "idle"]
    /\ cur = [w \in Workers |-> 0]
    /\ TaskInit
    /\ HistInit
    /\ files \in {<< >>, PreExisting}
    /\ dirs = {RootDir}
    /\ run_pc = "args"
    /\ pass_iter = << >>
    /\ pass_full = FALSE
    /\ pass_err = "None"
    /\ restore_all_result = "None"
    /\ run_result = "None"
    /\ exit_status = -1
    /\ ParseIdle

NextDriver ==
    \/ ParseArgs
    \/ FindNewestDlist
    \/ ReadManifest
    \/ ParseDlist
    \/ IndexThread
    \/ DbJoin
    \/ SortFileEntries
    \/ RestoreAllFolders
    \/ \E w \in Workers : WorkerCheckFull(w)
    \/ \E w \in Workers : WorkerTake(w)
    \/ \E w \in Workers : RestoreStep(w)
    \/ \E w \in Workers : WorkerFinish(w)
    \/ FolderPassJoin
    \/ FilePassJoin
    \/ MainExit

SpecDriver == InitDriver /\ [][NextDriver]_vars



(***************************************************************************)
(* database.rs: the index build, one import_from_zip task per archive run  *)
(* by the worker pool (create_block_id_to_filenames).                      *)
(***************************************************************************)
\* The import tasks that hold a worker.
ImportsRunning == { z \in DOMAIN archives : import_pc[z] = "loop" }

\* import_from_zip, lines 185-200: a worker takes the archive and opens it.
ImportOpen(z) ==
    /\ index_result = "None"
    /\ import_pc[z] = "idle"
    /\ ~index_full
    /\ Cardinality(ImportsRunning) < NumWorkers
    /\ IF fault = "archive_open" /\ z = "b.zip"
       THEN /\ import_pc' = [import_pc EXCEPT ![z] = "failed"]
            /\ index_full' = TRUE
       ELSE /\ import_pc' = [import_pc EXCEPT ![z] = "loop"]
            /\ UNCHANGED index_full
    /\ UNCHANGED << envVars, parseVars, taskVars, fsVars, histVars, runVars, hash2path,
                    zip2ziparchive, import_index, index_result >>

\* import_from_zip, lines 202-222: one turn of the loop over the entry names;
\* the insert is made under the lock of the DB.
ImportEntry(z) ==
    /\ import_pc[z] = "loop"
    /\ import_index[z] < Len(archives[z])
    /\ LET index == import_index[z]
           hash == decode_config(archives[z][index + 1].name, URL_SAFE)
       IN  IF ~hash.ok
           THEN /\ import_pc' = [import_pc EXCEPT ![z] = "failed"]
                /\ index_full' = TRUE
                /\ UNCHANGED << hash2path, import_index >>
           ELSE /\ hash2path' =
                       IF IsSome(hash2path)
                       THEN Some(hash2path_insert(Unwrap(hash2path), hash.bytes,
                                     [zip_path |-> z, file_index |-> index]))
                       ELSE hash2path
                /\ import_index' = [import_index EXCEPT ![z] = index + 1]
                /\ UNCHANGED << import_pc, index_full >>
    /\ UNCHANGED << envVars, parseVars, taskVars, fsVars, histVars, runVars, zip2ziparchive,
                    index_result >>

\* import_from_zip, lines 295-303: the archive is registered.
ImportRegister(z) ==
    /\ import_pc[z] = "loop"
    /\ import_index[z] = Len(archives[z])
    /\ zip2ziparchive' = zip2ziparchive \cup {z}
    /\ import_pc' = [import_pc EXCEPT ![z] = "done"]
    /\ UNCHANGED << envVars, parseVars, taskVars, fsVars, histVars, runVars, hash2path,
                    import_index, index_full, index_result >>

\* create_block_id_to_filenames, lines 177-181: try_for_each returns when no
\* task runs and none is left to start.
IndexJoin ==
    /\ index_result = "None"
    /\ ImportsRunning = {}
    /\ index_full \/ \A z \in DOMAIN archives : import_pc[z] = "done"
    /\ index_result' = IF index_full THEN "ImportFailed" ELSE "Ok"
    /\ UNCHANGED << envVars, parseVars, taskVars, fsVars, histVars, runVars, hash2path,
                    zip2ziparchive, import_pc, import_index, index_full >>

\* The entries an archive of the index build may hold: one or two blocks with
\* different names, or a block and an entry whose name is not base64.
IndexedDigests == { ContentName(64, 1), ContentName(64, 2), ListName(1) }

ArchiveOptions ==
    { << [name |-> encode_config(d, URL_SAFE), body |-> << >>] >> : d \in IndexedDigests }
    \cup { << [name |-> encode_config(p[1], URL_SAFE), body |-> << >>],
              [name |-> encode_config(p[2], URL_SAFE), body |-> << >>] >> :
              p \in { q \in IndexedDigests \X IndexedDigests : q[1] # q[2] } }

BadNameArchive ==
    << [name |-> encode_config(ListName(1), URL_SAFE), body |-> << >>],
       [name |-> << "!" >>, body |-> << >>] >>

\* DB::new has returned; no archive is imported yet.
InitIndex ==
    /\ manifest_block_size \in BlockSizes
    /\ restore_path = None
    /\ replace_backslash_to_slash = TRUE
    /\ hash_to_path \in BOOLEAN
    /\ fault \in {"none", "archive_open"}
    /\ \E a \in ArchiveOptions, b \in ArchiveOptions \cup {BadNameArchive} :
          archives = [z \in {"a.zip", "b.zip"} |-> IF z = "a.zip" THEN a ELSE b]
    /\ zip_order \in {<< "a.zip", "b.zip" >>, << "b.zip", "a.zip" >>}
    /\ file_entries = << >>
    /\ hash2path = IF hash_to_path THEN Some(<< >>) ELSE None
    /\ zip2ziparchive = {}
    /\ import_pc = [z \in DOMAIN archives |-> "idle"]
    /\ import_index = [z \in DOMAIN archives |-> 0]
    /\ index_full = FALSE
    /\ index_result = "None"
    /\ pc = [w \in Workers |-> "idle"]
    /\ cur = [w \in Workers |-> 0]
    /\ TaskInit
    /\ HistInit
    /\ files = << >>
    /\ dirs = {RootDir}
    /\ run_pc = "db_join"
    /\ pass_iter = << >>
    /\ pass_full = FALSE
    /\ pass_err = "None"
    /\ restore_all_result = "None"
    /\ run_result = "None"
    /\ exit_status = -1
    /\ ParseIdle

NextIndex ==
    \/ \E z \in DOMAIN archives : ImportOpen(z)
    \/ \E z \in DOMAIN archives : ImportEntry(z)
    \/ \E z \in DOMAIN archives : ImportRegister(z)
    \/ IndexJoin

SpecIndex == InitIndex /\ [][NextIndex]_vars



(***************************************************************************)
(* sorting.rs applied to bounded snapshots: the state of run before and    *)
(* after sort_files_sequentially, the index of two archives built.         *)
(***************************************************************************)
\* The number of entries of a snapshot that is sorted.
MaxEntries == 3

\* Files whose first block is at (b.zip, 0), (a.zip, 1) twice, (a.zip, 0) or
\* nowhere, a folder and a symlink.
SortPool ==
    LET C1 == ContentName(64, 1)
        C2 == ContentName(64, 2)
    IN  { FileEntry(PathA, C1, 64, << >>),
          FileEntry(PathB, C2, 64, << >>),
          FileEntry(PathC, C2, 64, << >>),
          FileEntry(PathA, C1, 64, << ListName(1) >>),
          FileEntry(PathB, C1, 64, << ListName(2) >>),
          FolderEntry(PathC),
          SymLinkEntry(PathA) }

SortArchives ==
    [z \in {"a.zip", "b.zip"} |->
        IF z = "a.zip"
        THEN << [name |-> encode_config(ListName(1), URL_SAFE), body |-> << >>],
                [name |-> encode_config(ContentName(64, 2), URL_SAFE), body |-> << >>] >>
        ELSE << [name |-> encode_config(ContentName(64, 1), URL_SAFE), body |-> << >>] >>]

\* run has joined the index thread and parsed the snapshot; the entries are in
\* snapshot order.
InitSort ==
    /\ manifest_block_size \in BlockSizes
    /\ restore_path = None
    /\ replace_backslash_to_slash = TRUE
    /\ hash_to_path \in BOOLEAN
    /\ fault = "none"
    /\ archives = SortArchives
    /\ zip_order = << "a.zip", "b.zip" >>
    /\ file_entries \in UNION { [1..n -> SortPool] : n \in 1..MaxEntries }
    /\ hash2path = IF hash_to_path
                   THEN Some(ImportAll(<< >>, zip_order, Len(zip_order)))
                   ELSE None
    /\ zip2ziparchive = DOMAIN archives
    /\ import_pc = [z \in DOMAIN archives |-> "done"]
    /\ import_index = [z \in DOMAIN archives |-> Len(archives[z])]
    /\ index_full = FALSE
    /\ index_result = "Ok"
    /\ pc = [w \in Workers |-> "idle"]
    /\ cur = [w \in Workers |-> 0]
    /\ TaskInit
    /\ HistInit
    /\ files = << >>
    /\ dirs = {RootDir}
    /\ run_pc = "sort"
    /\ pass_iter = << >>
    /\ pass_full = FALSE
    /\ pass_err = "None"
    /\ restore_all_result = "None"
    /\ run_result = "None"
    /\ exit_status = -1
    /\ ParseIdle

NextSort == SortFileEntries

SpecSort == InitSort /\ [][NextSort]_vars



(***************************************************************************)
(* restoring.rs: calculate_path applied to bounded entry paths, by the     *)
(* restore of one Folder entry into the restore directory.                 *)
(***************************************************************************)
\* The length of an entry path.
MaxPathLen == 4

PathChars == {"C", ":", "\\", "/", "a"}

EntryPaths == UNION { [1..n -> PathChars] : n \in 1..MaxPathLen }

\* restore_entry is called on one Folder entry by worker 1.
InitPath ==
    /\ manifest_block_size \in BlockSizes
    /\ restore_path = Some(RootDir)
    /\ replace_backslash_to_slash \in BOOLEAN
    /\ Repository(<< >>, FALSE)
    /\ fault = "none"
    /\ \E path \in EntryPaths : file_entries = << FolderEntry(path) >>
    /\ pc = [w \in Workers |-> IF w = 1 THEN "restore_entry" ELSE "idle"]
    /\ cur = [w \in Workers |-> IF w = 1 THEN 1 ELSE 0]
    /\ TaskInit
    /\ HistInit
    /\ files = << >>
    /\ dirs = {RootDir}
    /\ run_pc = "restore_entry"
    /\ pass_iter = << >>
    /\ pass_full = FALSE
    /\ pass_err = "None"
    /\ restore_all_result = "None"
    /\ run_result = "None"
    /\ exit_status = -1
    /\ ParseIdle

NextPath == RestoreEntry(1)

SpecPath == InitPath /\ [][NextPath]_vars

(***************************************************************************)
(* Reading a snapshot: the digest codec of blockhash.rs and the parser of  *)
(* dfileentry.rs.  A snapshot document is its list of JSON objects, or is  *)
(* malformed; an object field that is absent or null is None.              *)
(***************************************************************************)

\* Vec::with_capacity(64): the capacity of the thread's decode buffer.
BufferCapacity == 64

\* The length of the decode buffer: the vector is created empty, and is only
\* ever cleared.
BufferLen == 0

\* The engine's estimate of the decoded length of a text of n characters.
decoded_len_estimate(n) == ((n + 3) \div 4) * 3

\* Engine::decode_slice: decoding into a slice of out_len bytes, refused when
\* the slice is shorter than the estimate.
decode_slice(input, engine, out_len) ==
    IF out_len < decoded_len_estimate(Len(input))
    THEN [ok |-> FALSE, bytes |-> << >>]
    ELSE decode_config(input, engine)

\* BlockIdHash::from_base64_config: the text is decoded into the buffer taken
\* as a slice, and the digest is copied from the buffer.
from_base64_config(block_id_str, engine) ==
    IF ~(Len(block_id_str) < BufferCapacity)
    THEN [kind |-> "Panic", hash |-> << >>]
    ELSE LET r == decode_slice(block_id_str, engine, BufferLen)
         IN  IF ~r.ok
             THEN [kind |-> "None", hash |-> << >>]
             ELSE [kind |-> "Some", hash |-> SubSeq(r.bytes, 1, BufferLen)]

from_base64(block_id_str) == from_base64_config(block_id_str, STANDARD)

from_base64_urlsafe(block_id_str) == from_base64_config(block_id_str, URL_SAFE)

\* BlockIdHash::as_base64_config, with a buffer long enough for the text.
as_base64_config(hash, engine) == encode_config(hash, engine)

as_base64(hash) == as_base64_config(hash, STANDARD)

as_base64_urlsafe(hash) == as_base64_config(hash, URL_SAFE)

\* One object of the snapshot document.
IEntry(filetype, path, hash, size, metablockhash, time, blocklists) ==
    [filetype |-> filetype, path |-> path, hash |-> hash, size |-> size,
     metablockhash |-> metablockhash, time |-> time, blocklists |-> blocklists]

\* The result of from_ientry: an error, or the entry.
FromErr(e) == [err |-> e, entry |-> SymLinkEntry(<< >>)]

FromOk(entry) == [err |-> "None", entry |-> entry]

\* The error a failed digest conversion becomes.
base64_err(h) == IF h.kind = "Panic" THEN "Panic" ELSE "from_base64"

\* The block-list loop of from_ientry: every text is converted, the first
\* failure ends the conversion.
RECURSIVE blocklists_from(_)
blocklists_from(blocks) ==
    IF blocks = << >> THEN [err |-> "None", lists |-> << >>]
    ELSE LET h == from_base64(Head(blocks))
         IN  IF h.kind # "Some" THEN [err |-> base64_err(h), lists |-> << >>]
             ELSE LET rest == blocklists_from(Tail(blocks))
                  IN  IF rest.err # "None" THEN rest
                      ELSE [err |-> "None", lists |-> << h.hash >> \o rest.lists]

\* A faulty variant of match_filetype: an unknown type is kept as it is.
match_filetype_kept(filetype) == filetype

\* The arm of from_ientry's match on the type text.
match_filetype(filetype) ==
    IF filetype = "File" THEN "File"
    ELSE IF filetype = "Folder" THEN "Folder"
    ELSE "SymLink"

\* A faulty variant of from_ientry: an absent field is defaulted.
from_ientry_defaulted(ientry) ==
    FromOk([path |-> ientry.path, file_type |-> match_filetype(ientry.filetype),
            hash |-> << >>,
            size |-> IF IsSome(ientry.size) THEN Unwrap(ientry.size) ELSE 0,
            block_lists |-> << >>])

\* FileEntry::from_ientry
from_ientry(ientry) ==
    LET bl == IF IsSome(ientry.blocklists)
              THEN blocklists_from(Unwrap(ientry.blocklists))
              ELSE [err |-> "None", lists |-> << >>]
        t == match_filetype(ientry.filetype)
    IN  IF bl.err # "None" THEN FromErr(bl.err)
        ELSE IF t = "File" THEN
            IF ~IsSome(ientry.hash) THEN FromErr("hash not found")
            ELSE LET h == from_base64(Unwrap(ientry.hash))
                 IN  IF h.kind # "Some" THEN FromErr(base64_err(h))
                     ELSE IF ~IsSome(ientry.size) THEN FromErr("size not found")
                     ELSE IF ~IsSome(ientry.time) THEN FromErr("time not found")
                     ELSE FromOk([path |-> ientry.path, file_type |-> "File",
                                  hash |-> h.hash, size |-> Unwrap(ientry.size),
                                  block_lists |-> bl.lists])
        ELSE IF t = "Folder" THEN
            IF ~IsSome(ientry.metablockhash) THEN FromErr("metablockhash not found")
            ELSE FromOk([path |-> ientry.path, file_type |-> "Folder",
                         hash |-> << >>, size |-> 0, block_lists |-> bl.lists])
        ELSE FromOk([path |-> ientry.path, file_type |-> t,
                     hash |-> << >>, size |-> 0, block_lists |-> bl.lists])

\* The loop of parse_dlist_read: the first object that fails ends the parse.
RECURSIVE entries_from(_)
entries_from(entry_list) ==
    IF entry_list = << >> THEN [err |-> "None", entries |-> << >>]
    ELSE LET r == from_ientry(Head(entry_list))
         IN  IF r.err # "None" THEN [err |-> r.err, entries |-> << >>]
             ELSE LET rest == entries_from(Tail(entry_list))
                  IN  IF rest.err # "None" THEN rest
                      ELSE [err |-> "None", entries |-> << r.entry >> \o rest.entries]

\* parse_dlist_read: the document is deserialized and every object converted;
\* the caller holds the entries only when the parse returned them.
ParseDlistRead ==
    /\ parse_pc = "called"
    /\ LET r == IF dlist.malformed THEN [err |-> "deserialize", entries |-> << >>]
                ELSE entries_from(dlist.objects)
           list == IF r.err = "None" THEN r.entries ELSE << >>
       IN  /\ parse_result' = IF r.err = "None" THEN "Ok" ELSE r.err
           /\ file_entries' = list
           /\ trace' = [e \in 1..Len(list) |-> << >>]
           /\ fed' = [e \in 1..Len(list) |-> << >>]
           /\ result' = [e \in 1..Len(list) |-> "None"]
           /\ attempts' = [e \in 1..Len(list) |-> 0]
    /\ parse_pc' = "returned"
    /\ UNCHANGED << dlist, bomVars, archives, manifest_block_size, restore_path,
                    replace_backslash_to_slash, hash_to_path, zip_order, fault,
                    dbVars, taskVars, fsVars, runVars, fs_ops >>

\* restore_entry is called on a parsed entry that is not a file.
TakeParsed(e) ==
    /\ parse_pc = "returned"
    /\ parse_result = "Ok"
    /\ pc[1] \in {"idle", "done"}
    /\ e \in DOMAIN file_entries
    /\ file_entries[e].file_type # "File"
    /\ attempts[e] = 0
    /\ pc' = [pc EXCEPT ![1] = "restore_entry"]
    /\ cur' = [cur EXCEPT ![1] = e]
    /\ UNCHANGED << envVars, parseVars, dbVars, runVars, fsVars, histVars,
                    main_hash_index, block_index, hashes_buf, block_buffer,
                    last_block_size, hasher, out_file >>

MaxObjects == 2

\* The texts of a digest: the standard encoding of a 32-byte digest, and the
\* empty text.
HashText == encode_config(Digest(1), STANDARD)

Time == << "t" >>

MetaText == encode_config(Digest(2), STANDARD)

\* The objects of the documents: files and folders with and without their
\* required fields, and objects of other types.
Objects ==
    { IEntry("File", PathA, Some(HashText), Some(64), None, Some(Time), None),
      IEntry("File", PathA, Some(<< >>), Some(64), None, Some(Time), None),
      IEntry("File", PathA, None, Some(64), None, Some(Time), None),
      IEntry("File", PathA, Some(<< >>), None, None, Some(Time), None),
      IEntry("File", PathA, Some(<< >>), Some(64), None, None, None),
      IEntry("File", PathA, Some(<< >>), Some(64), None, Some(Time), Some(<< << >> >>)),
      IEntry("Folder", PathB, None, None, Some(MetaText), None, None),
      IEntry("Folder", PathB, None, None, None, None, None),
      IEntry("Symlink", PathC, None, None, None, None, None),
      IEntry("Symlink", PathC, None, None, None, None, Some(<< HashText >>)),
      IEntry("Other", PathC, None, None, Some(MetaText), None, None) }

Documents ==
    { [malformed |-> TRUE, objects |-> << >>] } \cup
    { [malformed |-> FALSE, objects |-> o] :
        o \in UNION { [1..n -> Objects] : n \in 0..MaxObjects } }

InitParse ==
    /\ manifest_block_size \in BlockSizes
    /\ restore_path = Some(RootDir)
    /\ replace_backslash_to_slash = TRUE
    /\ Repository(<< >>, FALSE)
    /\ fault = "none"
    /\ dlist \in Documents
    /\ parse_pc = "called"
    /\ parse_result = "None"
    /\ BomIdle
    /\ file_entries = << >>
    /\ pc = [w \in Workers |-> "idle"]
    /\ cur = [w \in Workers |-> 0]
    /\ TaskInit
    /\ HistInit
    /\ files = << >>
    /\ dirs = {RootDir}
    /\ run_pc = "parse"
    /\ pass_iter = << >>
    /\ pass_full = FALSE
    /\ pass_err = "None"
    /\ restore_all_result = "None"
    /\ run_result = "None"
    /\ exit_status = -1

NextParse ==
    \/ ParseDlistRead
    \/ \E e \in 1..MaxObjects : TakeParsed(e)
    \/ RestoreEntry(1)

SpecParse == InitParse /\ [][NextParse]_vars


(***************************************************************************)
(* The claims about the restore of one entry.                              *)
(***************************************************************************)
Entries == DOMAIN file_entries

IsFileEntry(e) == file_entries[e].file_type = "File"

Finished(e) == result[e] # "None"

\* The output path of an entry (write mode only).
AbsPath(e) == Unwrap(calculate_path(file_entries[e])).abs

\* No archive of the repository has an entry named by the digest.
Absent(d) ==
    \A z \in DOMAIN archives : ~contains_file_name(z, encode_config(d, URL_SAFE))

HasEv(e, ev) == \E k \in DOMAIN trace[e] : trace[e][k].ev = ev

\* C1 as stated: for every File entry of any declared size, success only if the
\* fetched content bytes, in block order, hash to the declared hash, and a
\* completed assembly that hashes to anything else fails with HashMismatch.
C1_AnySize ==
    \A e \in Entries :
        IsFileEntry(e) /\ Finished(e) =>
            /\ result[e] = "Ok" => Sha256(fed[e]) = file_entries[e].hash
            /\ HasEv(e, "check") /\ Sha256(fed[e]) # file_entries[e].hash
                   => result[e] = "HashMismatch"

\* C2 as stated: after a successful restore in write mode the output file holds
\* exactly the bytes that were fetched and hashed, in order, without gap or
\* overwritten range.
C2_FileIsFetchedBytes ==
    \A e \in Entries :
        IsFileEntry(e) /\ IsSome(restore_path) /\ result[e] = "Ok" =>
            files[AbsPath(e)] = fed[e]

\* The content blocks fetched for an entry, as the positions of their events.
ContentFetches(e) ==
    { k \in DOMAIN trace[e] :
        trace[e][k].ev = "fetch" /\ trace[e][k].j >= 0 /\ trace[e][k].found = 1 }

\* C3 as stated: a multi-block restore in which a content block other than the
\* last one of the last block-list block has a length different from B fails
\* with ShortBlock.
C3_EarlierBlocksFull ==
    \A e \in Entries :
        IsFileEntry(e) /\ Finished(e) =>
            ((\E k, m \in ContentFetches(e) :
                 k < m /\ trace[e][k].len # manifest_block_size)
             => result[e] = "ShortBlock")

\* C4 as stated: a single-block File whose block H is in no archive succeeds with
\* an empty file when S = 0 and fails with MissingBlock, nothing written or
\* hashed, when S > 0.
C4_SingleBlockAbsent ==
    \A e \in Entries :
        /\ IsFileEntry(e) /\ Finished(e)
        /\ file_entries[e].block_lists = << >>
        /\ Absent(file_entries[e].hash)
        => /\ file_entries[e].size = 0 =>
                 /\ result[e] = "Ok"
                 /\ IsSome(restore_path) => files[AbsPath(e)] = << >>
           /\ file_entries[e].size > 0 =>
                 /\ result[e] = "MissingBlock"
                 /\ ~HasEv(e, "write") /\ ~HasEv(e, "hash") /\ ~HasEv(e, "check")

\* C5: in a multi-block restore, a block-list block that is in no archive ends
\* the restore with MissingBlocklist and a content block that is in no archive
\* ends it with MissingBlock; the failed fetch is the last step of the entry: no
\* later fetch, write, hash or hash comparison.
C5_MissingStopsEntry ==
    \A e \in Entries :
        \A k \in DOMAIN trace[e] :
            /\ trace[e][k].ev = "fetch_list" /\ Absent(trace[e][k].digest)
                   => k = Len(trace[e]) /\ result[e] = "MissingBlocklist"
            /\ trace[e][k].ev = "fetch" /\ trace[e][k].j >= 0 /\ Absent(trace[e][k].digest)
                   => k = Len(trace[e]) /\ result[e] = "MissingBlock"

\* A content block of the second block-list block is absent, after the blocks of
\* the first one were written and hashed.
C5_Witness ==
    \E e \in Entries :
        /\ result[e] = "MissingBlock"
        /\ trace[e][Len(trace[e])].j = 1
        /\ Absent(trace[e][Len(trace[e])].digest)
        /\ HasEv(e, "hash")

\* C6: when only verifying (no restore path) nothing on the filesystem is ever
\* created, truncated or written, whatever the entry type, and no task holds an
\* open output file.
C6_VerifyOnlyNoMutation ==
    ~IsSome(restore_path) =>
        /\ fs_ops = {}
        /\ files = << >>
        /\ dirs = {RootDir}
        /\ \A w \in Workers : out_file[w] = None

\* A multi-block file was fetched, hashed and verified without a restore path.
C6_Witness ==
    /\ ~IsSome(restore_path)
    /\ \E e \in Entries :
          /\ IsFileEntry(e) /\ result[e] = "Ok" /\ file_entries[e].size > 0
          /\ file_entries[e].block_lists # << >>
          /\ HasEv(e, "fetch") /\ HasEv(e, "hash") /\ HasEv(e, "check")


(***************************************************************************)
(* The claims about main, run and restore_all.                             *)
(***************************************************************************)
IsFolderEntry(e) == file_entries[e].file_type = "Folder"

EntryFailed(e) == result[e] \notin {"None", "Ok"}

\* C7 as stated: the process exits with status 0 only when the whole restore
\* succeeded, and with a non-zero status after any fatal error (no list archive,
\* invalid manifest or snapshot, archive open failure, a failed entry).
C7_ExitStatus ==
    run_pc = "exited" => (exit_status = 0 <=> run_result = "Ok")

\* C8: restore_all returns success if and only if every Folder entry and every
\* File entry was restored without error, each attempted exactly once; no entry
\* is ever attempted twice; the error it returns is the error of one of its
\* entries, and an entry's error always makes it return an error.
C8_RestoreAllResult ==
    /\ \A e \in Entries : attempts[e] <= 1
    /\ restore_all_result # "None" =>
          /\ restore_all_result = "Ok" <=>
                 \A e \in Entries :
                     IsFolderEntry(e) \/ IsFileEntry(e) =>
                         attempts[e] = 1 /\ result[e] = "Ok"
          /\ restore_all_result # "Ok" =>
                 \E e \in Entries : EntryFailed(e) /\ result[e] = restore_all_result
          /\ \A w \in Workers : pc[w] = "idle"

\* restore_all returned the error of one entry while another entry of the same
\* pass was restored.
C8_Witness ==
    /\ restore_all_result \notin {"None", "Ok"}
    /\ \E e, f \in Entries :
          /\ IsFileEntry(e) /\ IsFileEntry(f)
          /\ result[e] = restore_all_result
          /\ result[f] = "Ok"

\* C9: whenever the restore of a File entry has begun, the restore of every
\* Folder entry has completed and no worker is still on a Folder entry.
C9_FoldersBeforeFiles ==
    (\E e \in Entries : IsFileEntry(e) /\ attempts[e] > 0) =>
        /\ \A f \in Entries : IsFolderEntry(f) => Finished(f)
        /\ \A w \in Workers : cur[w] # 0 => ~IsFolderEntry(cur[w])

\* A File entry is being restored after two Folder entries were created.
C9_Witness ==
    /\ \E e \in Entries : IsFileEntry(e) /\ attempts[e] = 1 /\ ~Finished(e)
    /\ \E f, g \in Entries :
          /\ f # g /\ IsFolderEntry(f) /\ IsFolderEntry(g)
          /\ result[f] = "Ok" /\ result[g] = "Ok"


(***************************************************************************)
(* The claims about the index build.                                       *)
(***************************************************************************)
IndexBuilt == index_result = "Ok" /\ IsSome(hash2path)

\* HashMap::get on the digest decoded from an entry name.
Lookup(n) ==
    LET key == decode_config(n, URL_SAFE).bytes
    IN  IF key \in DOMAIN Unwrap(hash2path) THEN Some(Unwrap(hash2path)[key]) ELSE None

\* The archives that have an entry of that name.
Holders(n) == { z \in DOMAIN archives : contains_file_name(z, n) }

\* C10 as stated: after the index build in indexed mode, for every archive A
\* and every entry name n of A, the lookup of the digest decoded from n returns
\* a location whose archive is A, also when the digest names an entry in more
\* than one archive.
C10_LookupIsOwnArchive ==
    IndexBuilt =>
        \A A \in DOMAIN archives : \A k \in 1..Len(archives[A]) :
            LET n == archives[A][k].name
            IN  IsSome(Lookup(n)) /\ Unwrap(Lookup(n)).zip_path = A

\* C10 amended: after the index build in indexed mode, for every archive A and
\* every entry name n of A, the lookup of the digest decoded from n returns a
\* location of an entry named n: its archive is one of the archives that hold
\* n (so it is A when only A holds n) and its index is that of the entry; every
\* archive is registered.
C10_LookupIsAHolder ==
    IndexBuilt =>
        /\ zip2ziparchive = DOMAIN archives
        /\ \A A \in DOMAIN archives : \A k \in 1..Len(archives[A]) :
              LET n == archives[A][k].name
                  loc == Unwrap(Lookup(n))
              IN  /\ IsSome(Lookup(n))
                  /\ loc.zip_path \in Holders(n)
                  /\ archives[loc.zip_path][loc.file_index + 1].name = n
                  /\ Holders(n) = {A} => loc.zip_path = A

\* The index is built from two archives that share a digest, which resolves to
\* a.zip, while a digest that only b.zip holds resolves to b.zip.
C10_Witness ==
    /\ IndexBuilt
    /\ \E k \in 1..Len(archives["b.zip"]) :
          LET n == archives["b.zip"][k].name
          IN  Holders(n) = {"a.zip", "b.zip"} /\ Unwrap(Lookup(n)).zip_path = "a.zip"
    /\ \E k \in 1..Len(archives["b.zip"]) :
          LET n == archives["b.zip"][k].name
          IN  Holders(n) = {"b.zip"} /\ Unwrap(Lookup(n)).zip_path = "b.zip"

\* C11 as stated: for every digest that names an entry in a registered archive,
\* resolving it in indexed mode finds an archive, and the same archive as the
\* probing of the registry finds, whatever characters its URL-safe name has.
C11_ModeEquivalence ==
    IndexBuilt =>
        \A A \in DOMAIN archives : \A k \in 1..Len(archives[A]) :
            LET n == archives[A][k].name
            IN  /\ IsSome(get_zip_by_block_id(n))
                /\ get_zip_by_block_id(n) = ProbeArchives(n)

(***************************************************************************)
(* The claims about the locality sort.                                     *)
(***************************************************************************)
Sorted == run_pc = "restore_all"

Loc(e) == get_first_bytes_location(file_entries[e], hash2path)

\* The entries in another order.
Permuted(q) == [k \in DOMAIN file_entries |-> file_entries[q[k]]]

EntryOrders ==
    { q \in [DOMAIN file_entries -> DOMAIN file_entries] :
        \A k \in DOMAIN file_entries : \E m \in DOMAIN file_entries : q[m] = k }

\* C12: after sort_files_sequentially, of two entries with defined first-block
\* locations the earlier one has the smaller or equal (archive path, entry index)
\* location, entries with equal locations are in FileEntry order, and sorting
\* the same entries from any other order gives the same list.
C12_SortedByLocation ==
    Sorted =>
        /\ \A a, b \in Entries :
              a < b /\ IsSome(Loc(a)) /\ IsSome(Loc(b)) =>
                  /\ cmp_block_location(Unwrap(Loc(a)), Unwrap(Loc(b))) <= 0
                  /\ Loc(a) = Loc(b) =>
                         cmp_file_entry(file_entries[a], file_entries[b]) <= 0
        /\ \A q \in EntryOrders :
              sort_files_sequentially(Permuted(q), hash2path) = file_entries

\* Three located files were sorted: two of a.zip with equal locations, in path
\* order, before one of b.zip.
C12_Witness ==
    /\ Sorted
    /\ Len(file_entries) = 3
    /\ \A e \in Entries : IsSome(Loc(e))
    /\ Loc(1) = Loc(2) /\ file_entries[1] # file_entries[2]
    /\ Unwrap(Loc(3)).zip_path = "b.zip"

\* C13 as stated: after the sort every entry without a first-block location
\* comes after every entry with one.
C13_UnlocatedLast ==
    Sorted =>
        \A a, b \in Entries : IsSome(Loc(a)) /\ ~IsSome(Loc(b)) => a < b

\* C13 amended: after the sort every entry without a first-block location
\* (Folder, Symlink, File whose first block is not in the index) comes before
\* every entry with one.
C13_UnlocatedFirst ==
    Sorted =>
        \A a, b \in Entries : IsSome(Loc(a)) /\ ~IsSome(Loc(b)) => b < a

\* A folder, a file whose first block is not indexed and a located file were
\* sorted.
C13_Witness ==
    /\ Sorted
    /\ \E a, b, c \in Entries :
          /\ IsFolderEntry(a)
          /\ IsFileEntry(b) /\ ~IsSome(Loc(b))
          /\ IsSome(Loc(c))

(***************************************************************************)
(* The claims about calculate_path.                                        *)
(***************************************************************************)
\* The path is the restore directory followed by a separator and more.
UnderRoot(path) ==
    /\ Len(path) > Len(RootDir)
    /\ SubSeq(path, 1, Len(RootDir) + 1) = RootDir \o << "/" >>

\* C14 as stated: the output path of every entry, whatever its path (also one
\* that starts with '/' or a backslash, or has no drive letter), lies under the
\* restore directory.
C14_UnderRestoreRoot ==
    \A o \in fs_ops : UnderRoot(o.path)

\* The transformation of calculate_path on the path of an entry.
Transform(path) ==
    LET p1 == replacen_colon_backslash(path)
    IN  IF replace_backslash_to_slash THEN replace_backslash(p1) ELSE p1

HasColonBackslash(path) ==
    \E k \in 1..(Len(path) - 1) : path[k] = ":" /\ path[k + 1] = "\\"

\* C15 as stated: transforming the path of an entry twice gives the same string
\* as transforming it once, for both values of the flag.
C15_Idempotent ==
    \A e \in Entries :
        Finished(e) =>
            Transform(Transform(file_entries[e].path)) = Transform(file_entries[e].path)

\* C15 amended: with the flag set, transforming twice gives the same string as
\* transforming once; with the flag unset it does exactly when the string
\* transformed once has no colon-backslash left.
C15_IdempotentUnlessColonLeft ==
    \A e \in Entries :
        Finished(e) =>
            LET once == Transform(file_entries[e].path)
            IN  /\ replace_backslash_to_slash => Transform(once) = once
                /\ ~replace_backslash_to_slash =>
                       (Transform(once) = once <=> ~HasColonBackslash(once))

\* A path with a drive letter and a backslash was mapped with the flag set and
\* the directory created under the restore directory.
C15_Witness ==
    /\ replace_backslash_to_slash
    /\ Finished(1)
    /\ file_entries[1].path = << "C", ":", "\\", "a" >>
    /\ (RootDir \o << "/", "C", "/", "a" >>) \in dirs

(***************************************************************************)
(* The claims about the tasks of the file pass.                            *)
(***************************************************************************)
Running(w) == pc[w] \notin {"idle", "check_full", "ready", "done"}

\* C16 as stated: no two running restore tasks have the same output path open,
\* and every output file is created and written by the task of one entry only,
\* for every snapshot, also one in which two entries map to the same output path.
C16_OneTaskPerFile ==
    /\ \A v, w \in Workers :
          v # w /\ Running(v) /\ Running(w) /\ IsSome(out_file[v]) /\ IsSome(out_file[w])
              => out_file[v] # out_file[w]
    /\ \A o1, o2 \in fs_ops :
          o1.op \in {"create", "write"} /\ o2.op \in {"create", "write"} /\ o1.path = o2.path
              => o1.entry = o2.entry

(***************************************************************************)
(* Claims C17 to C20: reading the snapshot and the digest codec            *)
(* (SpecParse).                                                            *)
(***************************************************************************)

Parsed == parse_pc = "returned" /\ parse_result = "Ok"

OtherType(o) == o.filetype \notin {"File", "Folder"}

LacksRequired(o) ==
    \/ o.filetype = "File" /\ (~IsSome(o.hash) \/ ~IsSome(o.size) \/ ~IsSome(o.time))
    \/ o.filetype = "Folder" /\ ~IsSome(o.metablockhash)

C19_DigestsHold32Bytes ==
    /\ \A e \in DOMAIN file_entries :
          /\ file_entries[e].file_type = "File" => Len(file_entries[e].hash) = HashSize
          /\ \A k \in DOMAIN file_entries[e].block_lists :
                Len(file_entries[e].block_lists[k]) = HashSize
    /\ \A i \in DOMAIN dlist.objects :
          parse_pc = "returned" /\ IsSome(dlist.objects[i].hash) =>
              LET text == Unwrap(dlist.objects[i].hash)
              IN  /\ from_base64(text).kind = "Some"
                        => Len(from_base64(text).hash) = HashSize
                  /\ from_base64_urlsafe(text).kind = "Some"
                        => Len(from_base64_urlsafe(text).hash) = HashSize
                  /\ IsSome(from_bytes(decode_config(text, STANDARD).bytes))
                        => Len(decode_config(text, STANDARD).bytes) = HashSize

\* The alphabets differ on a character of the text.
HasDifferingChar(text) ==
    \E k \in DOMAIN text : text[k] \in {"+", "/", "-", "_"}

\* C20 as stated: for 32 bytes b, decoding the standard encoding of b with
\* the standard decoder, and the URL-safe encoding with the URL-safe decoder,
\* gives b; decoding with the other codec fails exactly when the encoding
\* holds a character on which the alphabets differ.
C20_RoundTrip ==
    \A i \in DOMAIN dlist.objects :
        LET o == dlist.objects[i]
            b == Digest(1)
        IN  parse_pc = "returned" /\ IsSome(o.hash) /\ Unwrap(o.hash) = as_base64(b) =>
                /\ from_base64(as_base64(b)) = [kind |-> "Some", hash |-> b]
                /\ from_base64_urlsafe(as_base64_urlsafe(b)) = [kind |-> "Some", hash |-> b]
                /\ (from_base64(as_base64_urlsafe(b)).kind # "Some"
                        <=> HasDifferingChar(as_base64_urlsafe(b)))
                /\ (from_base64_urlsafe(as_base64(b)).kind # "Some"
                        <=> HasDifferingChar(as_base64(b)))

(***************************************************************************)
(* Stripping the byte-order mark (stripbom.rs): the slice form and the     *)
(* buffered-reader form, applied to one byte sequence.                     *)
(***************************************************************************)

\* The UTF-8 byte-order mark EF BB BF.
BomBytes == << 239, 187, 191 >>

\* [u8]::starts_with
starts_with(s, prefix) ==
    Len(s) >= Len(prefix) /\ SubSeq(s, 1, Len(prefix)) = prefix

starts_with_bom_bytes(s) == starts_with(s, BomBytes)

\* StripBomBytes::strip_bom for [u8]
strip_bom(s) ==
    IF starts_with(s, BomBytes) THEN SubSeq(s, Len(BomBytes) + 1, Len(s)) ELSE s

\* The slice form is called on the sequence.
StripBomSlice ==
    /\ bom_slice = None
    /\ bom_slice' = Some(strip_bom(bom_input))
    /\ UNCHANGED << envVars, dlist, parse_pc, parse_result, bom_input, bom_avail,
                    bom_consumed, dbVars, taskVars, fsVars, histVars, runVars >>

\* strip_bom_from_bufread on a reader over the sequence: fill_buf makes some
\* of the bytes that are left available, at least one unless the stream is at
\* its end, and three bytes are consumed when the available bytes begin with
\* the mark.
StripBomFromBufread ==
    /\ bom_consumed = -1
    /\ \E n \in 0..Len(bom_input) :
          /\ n = 0 <=> bom_input = << >>
          /\ LET buf == SubSeq(bom_input, 1, n)
             IN  /\ bom_avail' = n
                 /\ bom_consumed' = IF Len(buf) >= 3 /\ starts_with_bom_bytes(buf)
                                    THEN 3 ELSE 0
    /\ UNCHANGED << envVars, dlist, parse_pc, parse_result, bom_input, bom_slice,
                    dbVars, taskVars, fsVars, histVars, runVars >>

MaxBomLen == 4

\* The bytes of the sequences: the three bytes of the mark and the letter a.
BomAlphabet == {239, 187, 191, 97}

BomInputs == UNION { [1..n -> BomAlphabet] : n \in 0..MaxBomLen }

InitBom ==
    /\ manifest_block_size \in BlockSizes
    /\ restore_path = Some(RootDir)
    /\ replace_backslash_to_slash = TRUE
    /\ Repository(<< >>, FALSE)
    /\ fault = "none"
    /\ dlist = [malformed |-> FALSE, objects |-> << >>]
    /\ parse_pc = "idle"
    /\ parse_result = "None"
    /\ bom_input \in BomInputs
    /\ bom_slice = None
    /\ bom_avail = -1
    /\ bom_consumed = -1
    /\ file_entries = << >>
    /\ pc = [w \in Workers |-> "idle"]
    /\ cur = [w \in Workers |-> 0]
    /\ TaskInit
    /\ HistInit
    /\ files = << >>
    /\ dirs = {RootDir}
    /\ run_pc = "parse"
    /\ pass_iter = << >>
    /\ pass_full = FALSE
    /\ pass_err = "None"
    /\ restore_all_result = "None"
    /\ run_result = "None"
    /\ exit_status = -1

NextBom == StripBomSlice \/ StripBomFromBufread

SpecBom == InitBom /\ [][NextBom]_vars

\* The bytes the reader still holds after strip_bom_from_bufread.
BufreadRest == SubSeq(bom_input, bom_consumed + 1, Len(bom_input))

\* The sequence without a leading mark.
WithoutBom(s) == IF starts_with(s, BomBytes) THEN SubSeq(s, 4, Len(s)) ELSE s

\* C21 as stated: both forms return a sequence that does not begin with
\* EF BB BF unchanged, and remove exactly the three bytes of a leading mark.
C21_StripBom ==
    /\ IsSome(bom_slice) => Unwrap(bom_slice) = WithoutBom(bom_input)
    /\ bom_consumed >= 0 => BufreadRest = WithoutBom(bom_input)

(***************************************************************************)
(* Claims C22 to C24, C29 and C30: the restore of one File entry (Spec).   *)
(***************************************************************************)

\* The positions of the events of one kind in the trace of an entry.
EvAt(e, ev) == { k \in DOMAIN trace[e] : trace[e][k].ev = ev }

\* The bytes covered by one block-list block: L = B * (B / 32).
ListSpan == manifest_block_size * (manifest_block_size \div 32)

\* C22: in a multi-block restore the content block at position i of block-list
\* block j is written at file offset j*L + i*B, whatever the lengths of the
\* blocks written before it, and the block's bytes are in the file there.
C22_WriteOffset ==
    \A e \in Entries :
        /\ \A k \in EvAt(e, "write") :
              trace[e][k].j >= 0 =>
                  trace[e][k].offset = trace[e][k].j * ListSpan
                                       + trace[e][k].i * manifest_block_size
        /\ \A w \in Workers, k \in EvAt(e, "write") :
              /\ cur[w] = e /\ IsSome(out_file[w]) /\ trace[e][k].j >= 0
              /\ \A m \in EvAt(e, "write") \cup EvAt(e, "fetch") : m <= k
              => SubSeq(files[Unwrap(out_file[w])], trace[e][k].offset + 1,
                        trace[e][k].offset + trace[e][k].len) = block_buffer[w]

\* A block of the second block-list block was written after a short block.
C22_Witness ==
    \E e \in Entries : \E k, m \in EvAt(e, "write") :
        /\ m < k
        /\ trace[e][m].j = 0 /\ trace[e][m].len < manifest_block_size
        /\ trace[e][k].j = 1 /\ trace[e][k].offset = ListSpan
        /\ trace[e][k].len > 0

\* The position of a task in the state machine of a file: Planned, Opened
\* and Assembling, Hashing, Done or Failed.
Rank(p) ==
    CASE p \in {"idle", "restore_entry"} -> 0
      [] p \in {"singleblock", "multiblock_main", "multiblock_block"} -> 1
      [] p = "check_file_hash" -> 2
      [] OTHER -> 3

\* (j, i) comes before (j2, i2).
Before(j, i, j2, i2) == j < j2 \/ (j = j2 /\ i < i2)

\* The output file is created before anything is fetched, blocks are fetched
\* and written in increasing (j, i) order, every write follows the fetch of
\* its block, and the hash comparison comes last.
C23_TraceIsLinear ==
    \A e \in Entries :
        LET t == trace[e]
        IN  /\ \A k \in EvAt(e, "create") : k = 1
            /\ IsSome(restore_path) /\ IsFileEntry(e) /\ t # << >> => t[1].ev = "create"
            /\ \A k, m \in EvAt(e, "fetch") :
                  k < m => Before(t[k].j, t[k].i, t[m].j, t[m].i)
            /\ \A k, m \in EvAt(e, "write") :
                  k < m => Before(t[k].j, t[k].i, t[m].j, t[m].i)
            /\ \A k, m \in EvAt(e, "fetch_list") : k < m => t[k].j < t[m].j
            /\ \A k \in EvAt(e, "write") :
                  /\ k - 1 \in EvAt(e, "fetch")
                  /\ t[k - 1].j = t[k].j /\ t[k - 1].i = t[k].i
            /\ \A k \in EvAt(e, "check") : k = Len(t)
            /\ Finished(e) /\ result[e] = "Ok" /\ IsFileEntry(e) => EvAt(e, "check") # {}

\* A step never moves a task back in the state machine, and no step adds a
\* fetch, a write, a hash update or a file-system operation to an entry that
\* has ended.
C23_NoStepBack ==
    /\ \A w \in Workers : Rank(pc'[w]) >= Rank(pc[w])
    /\ \A e \in Entries :
          Finished(e) =>
              /\ trace'[e] = trace[e]
              /\ fed'[e] = fed[e]
              /\ result'[e] = result[e]
              /\ files' = files
              /\ fs_ops' = fs_ops

\* C23: the restore of one File entry is a linear state machine: the output
\* file is created before any block is fetched, blocks are fetched and written
\* in strictly increasing (j, i) order, the hash comparison happens only after
\* the last block, and once the entry has failed no further fetch, write or
\* hash step of that entry occurs.
C23_LinearStateMachine == []C23_TraceIsLinear /\ [][C23_NoStepBack]_vars

\* A multi-block entry failed on a block after an earlier block was written.
C23_Witness ==
    \E e \in Entries :
        /\ result[e] \in {"MissingBlock", "ShortBlock", "BadHashLen"}
        /\ EvAt(e, "write") # {}
        /\ EvAt(e, "create") = {1}
        /\ EvAt(e, "check") = {}

(***************************************************************************)
(* The two modes side by side: restore_entry is called on an entry without *)
(* a restore path and then, on the same entry and repository, with one.    *)
(***************************************************************************)

\* restore_entry is called again on the entry, now with a restore path; the
\* second call has its own place in the history.
RestoreAgainWriting ==
    /\ pc[1] = "done"
    /\ Len(file_entries) = 1
    /\ restore_path = None
    /\ restore_path' = Some(RootDir)
    /\ file_entries' = file_entries \o file_entries
    /\ trace' = << trace[1], << >> >>
    /\ fed' = << fed[1], << >> >>
    /\ result' = << result[1], "None" >>
    /\ attempts' = << attempts[1], 0 >>
    /\ pc' = [pc EXCEPT ![1] = "restore_entry"]
    /\ cur' = [cur EXCEPT ![1] = 2]
    /\ UNCHANGED << archives, manifest_block_size, replace_backslash_to_slash,
                    hash_to_path, zip_order, fault, parseVars, dbVars, runVars, fsVars,
                    fs_ops, main_hash_index, block_index, hashes_buf, block_buffer,
                    last_block_size, hasher, out_file >>

InitModes == Init /\ restore_path = None

NextModes == RestoreStep(1) \/ RestoreAgainWriting

SpecModes == InitModes /\ [][NextModes]_vars

\* The fetches, hash updates and hash comparison of an entry, in order.
RECURSIVE FetchesAndHashes(_)
FetchesAndHashes(t) ==
    IF t = << >> THEN << >>
    ELSE (IF Head(t).ev \in {"fetch_list", "fetch", "hash", "check"}
          THEN << Head(t) >> ELSE << >>) \o FetchesAndHashes(Tail(t))

IsPrefix(s, t) == Len(s) <= Len(t) /\ SubSeq(t, 1, Len(s)) = s

\* C24: for the same File entry and repository, restore_entry in verify-only
\* mode and in write mode perform the same sequence of block fetches and hash
\* updates and return the same outcome.
C24_ModesAgree ==
    Len(file_entries) = 2 =>
        /\ IsPrefix(FetchesAndHashes(trace[2]), FetchesAndHashes(trace[1]))
        /\ IsPrefix(fed[2], fed[1])
        /\ Finished(2) =>
              /\ result[2] = result[1]
              /\ FetchesAndHashes(trace[2]) = FetchesAndHashes(trace[1])
              /\ fed[2] = fed[1]

\* A multi-block file was verified and then written, and failed both times on
\* the same short block.
C24_Witness ==
    /\ Len(file_entries) = 2
    /\ IsFileEntry(2) /\ file_entries[2].block_lists # << >>
    /\ result[1] = "ShortBlock" /\ result[2] = "ShortBlock"
    /\ EvAt(1, "write") = {} /\ EvAt(2, "write") # {}
    /\ EvAt(1, "hash") # {}

(***************************************************************************)
(* Claims C25 to C27: the order of the steps of run and restore_all        *)
(* (SpecDriver).                                                           *)
(***************************************************************************)

\* The locality sort or a restore pass has started.
SortOrPassStarted ==
    run_pc \in {"sort", "restore_all", "folder_pass", "file_pass"}

NothingRestored ==
    /\ \A e \in Entries : attempts[e] = 0 /\ trace[e] = << >>
    /\ fs_ops = {}
    /\ \A w \in Workers : pc[w] = "idle"

\* C25: the manifest is read before any file assembly starts; the sort and
\* the restore passes start only after the index build and the snapshot parse
\* have both completed with success; if either fails no entry is sorted or
\* restored.
C25_RunOrder ==
    /\ run_pc \in {"args", "find_dlist", "read_manifest"} =>
          NothingRestored /\ index_result = "None"
    /\ SortOrPassStarted =>
          index_result = "Ok" /\ fault \notin {"bad_manifest", "bad_snapshot", "archive_open"}
    /\ run_pc \in {"parse_dlist", "db_join"} => NothingRestored
    /\ fault \in {"bad_manifest", "bad_snapshot", "archive_open"} =>
          /\ NothingRestored
          /\ ~SortOrPassStarted
          /\ restore_all_result = "None"
          /\ run_pc \in {"run_done", "exited"} => run_result \notin {"None", "Ok"}

\* The index thread finished its build while the snapshot was not parsed
\* yet, the parse then failed, and run returned the error.
C25_Witness ==
    /\ fault = "bad_snapshot"
    /\ index_result = "Ok"
    /\ run_pc = "run_done"
    /\ run_result = "BadSnapshot"

\* The File entries whose output path is p.
EntriesAt(p) ==
    { e \in Entries : IsFileEntry(e) /\ IsSome(calculate_path(file_entries[e]))
                      /\ AbsPath(e) = p }

\* The last entry of the list that is written to p: when the entries are
\* restored one after another in list order, which is one of the schedulings,
\* its content is what p holds in the end.
LastEntryAt(p) == CHOOSE e \in EntriesAt(p) : \A d \in EntriesAt(p) : d <= e

\* C26 as stated: the result of restore_all, and the final content of every
\* output file when all entries succeed, is the same for every ordering of the
\* entry list and every scheduling of the workers; so every run that succeeds
\* leaves in every output file what the run in list order leaves there.
C26_ScheduleIndependent ==
    restore_all_result = "Ok" /\ IsSome(restore_path) =>
        \A e \in Entries :
            IsFileEntry(e) =>
                /\ result[e] = "Ok"
                /\ files[AbsPath(e)] = fed[LastEntryAt(AbsPath(e))]

\* restore_all returns only when no task is in flight: every worker has left
\* the pass and every entry that was begun has ended.
C27_ReturnsAfterTasks ==
    restore_all_result # "None" =>
        /\ \A w \in Workers : pc[w] = "idle" /\ cur[w] = 0
        /\ \A e \in Entries : attempts[e] > 0 => Finished(e)

\* A task in flight is not cancelled: a worker leaves its entry only when the
\* entry has ended.
C27_NoCancel ==
    \A w \in Workers : cur[w] # 0 /\ cur'[w] # cur[w] => pc[w] = "done"

\* No worker takes an entry while the flag of the pass is set.
C27_NoTakeWhenFull ==
    pass_full => \A w \in Workers : cur[w] = 0 => cur'[w] = 0

\* A worker that finds the flag set takes no further entry.
C27_NoTakeOnceSeen ==
    \A w \in Workers : pc[w] = "check_full" /\ pass_full => pc'[w] \in {"check_full", "idle"}

\* C27 as stated: once a task has returned an error no further entry of the
\* pass is started, tasks in flight run on, and restore_all returns the error
\* only after every task in flight has stopped.
C27_ShortCircuit ==
    []C27_ReturnsAfterTasks /\ [][C27_NoCancel /\ C27_NoTakeWhenFull]_vars

\* C27 amended: a worker that finds the flag of the pass set starts no further
\* entry (a worker that found it clear before the error may still take one),
\* tasks in flight run on, and restore_all returns the error only after every
\* task in flight has stopped.
C27_ShortCircuitOnceSeen ==
    []C27_ReturnsAfterTasks /\ [][C27_NoCancel /\ C27_NoTakeOnceSeen]_vars

\* restore_all returned the error of the first file of the pass after the
\* last file of the pass had been restored as well.
C27_Witness ==
    /\ restore_all_result \notin {"None", "Ok"}
    /\ \E e, f \in Entries :
          /\ e < f /\ IsFileEntry(e) /\ IsFileEntry(f)
          /\ EntryFailed(e) /\ attempts[f] = 1 /\ Finished(f)

(***************************************************************************)
(* Claim C28: the pairs of the block index (SpecIndex).                    *)
(***************************************************************************)

\* C28: in every state of the index build each pair of the block index is
\* valid: the archive of the location has, at the index of the location, an
\* entry whose name is the URL-safe base64 of the digest; also when two
\* archives hold the same digest and their imports interleave.
C28_IndexPairsValid ==
    IsSome(hash2path) =>
        \A key \in DOMAIN Unwrap(hash2path) :
            LET loc == Unwrap(hash2path)[key]
            IN  /\ loc.zip_path \in DOMAIN archives
                /\ loc.file_index + 1 \in 1..Len(archives[loc.zip_path])
                /\ archives[loc.zip_path][loc.file_index + 1].name
                       = encode_config(key, URL_SAFE)

\* Both imports are in their loops, and a digest that both archives hold is
\* in the index with the location of its entry in b.zip, where it is not the
\* first entry.
C28_Witness ==
    /\ IsSome(hash2path)
    /\ import_pc["a.zip"] = "loop" /\ import_pc["b.zip"] = "loop"
    /\ \E key \in DOMAIN Unwrap(hash2path) :
          /\ Holders(encode_config(key, URL_SAFE)) = {"a.zip", "b.zip"}
          /\ Unwrap(hash2path)[key] = [zip_path |-> "b.zip", file_index |-> 1]

\* The events of one kind for the blocks of block-list block j.
EvOf(e, ev, j) == { k \in EvAt(e, ev) : trace[e][k].j = j }

\* C29: a block-list payload whose length is not a multiple of 32 makes the
\* multi-block restore fail; a chunk shorter than 32 bytes is never used as a
\* digest or looked up; and when the restore fails at the partial chunk, the
\* blocks named by the complete digests before it have been fetched, written
\* (in write mode) and hashed (when the declared size is positive).
C29_PartialChunkFails ==
    \A e \in Entries :
        /\ \A k \in EvAt(e, "fetch") : Len(trace[e][k].digest) = HashSize
        /\ \A k \in EvAt(e, "fetch_list") :
              LET ev == trace[e][k]
                  whole == ev.len \div HashSize
              IN  ev.found = 1 /\ ev.len % HashSize # 0 =>
                      /\ Finished(e) =>
                            result[e] \in {"BadHashLen", "MissingBlock", "ShortBlock"}
                      /\ result[e] = "BadHashLen" =>
                            /\ \A m \in EvAt(e, "fetch_list") : m <= k
                            /\ Cardinality(EvOf(e, "fetch", ev.j)) = whole
                            /\ \A m \in EvOf(e, "fetch", ev.j) : trace[e][m].found = 1
                            /\ IsSome(restore_path) =>
                                  Cardinality(EvOf(e, "write", ev.j)) = whole
                            /\ file_entries[e].size > 0 =>
                                  Cardinality(EvOf(e, "hash", ev.j)) = whole
        /\ result[e] = "BadHashLen" =>
              \E k \in EvAt(e, "fetch_list") : trace[e][k].len % HashSize # 0

\* In write mode the restore failed at the partial chunk after the block of
\* the digest before it was written and hashed.
C29_Witness ==
    /\ IsSome(restore_path)
    /\ \E e \in Entries :
          /\ result[e] = "BadHashLen"
          /\ EvAt(e, "write") # {} /\ EvAt(e, "hash") # {}
          /\ \E k \in EvAt(e, "fetch_list") : trace[e][k].len = HashSize + 1

\* The number of bytes of the write events of a trace.
RECURSIVE WrittenBytes(_)
WrittenBytes(t) ==
    IF t = << >> THEN 0
    ELSE (IF Head(t).ev = "write" THEN Head(t).len ELSE 0) + WrittenBytes(Tail(t))

\* C30 as stated: after a successful restore of a File entry of declared size
\* S the number of content bytes written for it, and the length of its output
\* file, is S; an entry of size 0 leaves an empty file whether or not it has
\* block lists.
C30_WrittenIsDeclaredSize ==
    \A e \in Entries :
        IsFileEntry(e) /\ IsSome(restore_path) /\ result[e] = "Ok" =>
            /\ WrittenBytes(trace[e]) = file_entries[e].size
            /\ Len(files[AbsPath(e)]) = file_entries[e].size

=============================================================================
